---------------------------- MODULE Spec2Model ----------------------------
(***************************************************************************)
(* A model of accim's aPMV set-point augmentation                          *)
(* (src/accim/sim/apmv_setpoints_wip_4_4_testing.py).                      *)
(*                                                                         *)
(* The building model (an eppy/besos IDF) is a record of object lists, one *)
(* list per IDF class, each object a record of its fields.  A name is a    *)
(* sequence of one-character strings, so that upper(), strip() and the     *)
(* sanitizer act on characters as str does in Python.  A literal of the    *)
(* source that is only ever concatenated (such as 'Fanger Setpoint ') is   *)
(* kept as one symbol of the sequence; one that the source spells in       *)
(* several ways (such as 'PMV_H_SP_') is spelled character by character.   *)
(* Numbers with decimals are in thousandths.                               *)
(***************************************************************************)
EXTENDS Integers, Sequences, FiniteSets, TLC

VARIABLES
    building,   \* the IDF model the functions read and mutate in place
    ret,        \* what the last call returned (targets, a table) or <<>>
    warns,      \* the warnings.warn() calls of the last call, in order
    call,       \* the last call: [op |-> "init"], [op |-> "resolve"],
                \* [op |-> "df", a |-> arguments], [op |-> "apply", a |-> arguments],
                \* [op |-> "infra", zones |-> unique_zones], [op |-> "edit"],
                \* [op |-> "timestep"]
    status,     \* "ok", "raised" when the last call ended in an exception, or
                \* "fatal" when EnergyPlus stopped the simulation
    calls,      \* how many times apply_apmv_setpoints was invoked
    prevApply,  \* <<[a or zones, status]>>: the call before the last one
    before,     \* <<b>>: the building as the last apply call found it
    erl         \* the simulation: [t, fatal, strict], t the Erl variables; <<>>
                \* where no simulation is run

vars == <<building, ret, warns, call, status, calls, prevApply, before, erl>>

-----------------------------------------------------------------------------
(* Strings *)

LowerLetters == <<"a","b","c","d","e","f","g","h","i","j","k","l","m",
                  "n","o","p","q","r","s","t","u","v","w","x","y","z">>
UpperLetters == <<"A","B","C","D","E","F","G","H","I","J","K","L","M",
                  "N","O","P","Q","R","S","T","U","V","W","X","Y","Z">>

\* str.upper() and str.lower() as tables of the letters they change
ToUpper ==
    [c \in {LowerLetters[i] : i \in 1..Len(LowerLetters)} |->
        UpperLetters[CHOOSE i \in 1..Len(LowerLetters) : LowerLetters[i] = c]]
ToLower ==
    [c \in {UpperLetters[i] : i \in 1..Len(UpperLetters)} |->
        LowerLetters[CHOOSE i \in 1..Len(UpperLetters) : UpperLetters[i] = c]]

\* str.upper() on one character
UpperChar(c) == IF c \in DOMAIN ToUpper THEN ToUpper[c] ELSE c

\* str.lower() on one character
LowerChar(c) == IF c \in DOMAIN ToLower THEN ToLower[c] ELSE c

\* str.upper()
StrUpper(s) == [i \in 1..Len(s) |-> UpperChar(s[i])]

\* str.capitalize(): first character upper-cased, the rest lower-cased
Capitalize(s) ==
    [i \in 1..Len(s) |-> IF i = 1 THEN UpperChar(s[i]) ELSE LowerChar(s[i])]

\* the characters str.strip() removes
Whitespace == {" ", "\t", "\n", "\r"}

RECURSIVE LStrip(_)
LStrip(s) ==
    IF s # <<>> /\ Head(s) \in Whitespace THEN LStrip(Tail(s)) ELSE s

RECURSIVE RStrip(_)
RStrip(s) ==
    IF s # <<>> /\ s[Len(s)] \in Whitespace
    THEN RStrip(SubSeq(s, 1, Len(s) - 1))
    ELSE s

\* str.strip()
Strip(s) == RStrip(LStrip(s))

\* name.upper().strip(), the key of every case-insensitive lookup
UpperStrip(s) == Strip(StrUpper(s))

\* str.replace(a, b) for one-character a and b
Replace(s, a, b) == [i \in 1..Len(s) |-> IF s[i] = a THEN b ELSE s[i]]

\* a faulty variant of the sanitizer: it forgets the hyphen
SanitizeNoHyphen(name) == Replace(Replace(name, " ", "_"), ":", "_")

\* _sanitize_ems_name
SanitizeEmsName(name) ==
    Replace(Replace(Replace(name, " ", "_"), ":", "_"), "-", "_")

\* f"{a} {b}" and f"{a}_{b}"
JoinSpace(a, b) == a \o <<" ">> \o b
JoinUnderscore(a, b) == a \o <<"_">> \o b


-----------------------------------------------------------------------------
(* Target resolution *)

\* range(1, 500) in get_items_from_list stops before this field number
ListRangeEnd == 500

\* get_items_from_list: the extensible fields <prefix>_1_Name, <prefix>_2_Name,
\* ... of a list object, read until the first absent or blank one
RECURSIVE GetItemsFrom(_, _)
GetItemsFrom(fields, i) ==
    IF i >= ListRangeEnd \/ i > Len(fields) THEN <<>>
    ELSE IF fields[i] = <<>> THEN <<>>
    ELSE <<fields[i]>> \o GetItemsFrom(fields, i + 1)

\* a faulty variant of get_items_from_list: a blank field is skipped, not a stop
RECURSIVE GetItemsSkippingBlanks(_)
GetItemsSkippingBlanks(fields) ==
    IF fields = <<>> THEN <<>>
    ELSE IF Head(fields) = <<>> THEN GetItemsSkippingBlanks(Tail(fields))
    ELSE <<Head(fields)>> \o GetItemsSkippingBlanks(Tail(fields))

GetItemsFromList(fields) == GetItemsFrom(fields, 1)

\* building.idfobjects[KEY], with the KeyError of a schema that lacks the
\* class caught: the lookup is then left empty
ObjectsOrNone(b, key) == IF key \in DOMAIN b THEN b[key] ELSE <<>>

\* {o.Name.upper().strip(): o for o in objs}: the keys of the dictionary
DictKeys(objs) == {UpperStrip(objs[i].Name) : i \in 1..Len(objs)}

\* {o.Name.upper().strip(): o for o in objs}[key]: a later object of the
\* same key overwrites an earlier one
DictGet(objs, key) ==
    LET hits == {i \in 1..Len(objs) : UpperStrip(objs[i].Name) = key}
    IN  objs[CHOOSE i \in hits : \A j \in hits : j <= i]

\* people.Zone_or_ZoneList_Name, else
\* people.Zone_or_ZoneList_or_Space_or_SpaceList_Name, else people.Zone_Name
ContainerName(people) ==
    IF "Zone_or_ZoneList_Name" \in DOMAIN people
    THEN people["Zone_or_ZoneList_Name"]
    ELSE IF "Zone_or_ZoneList_or_Space_or_SpaceList_Name" \in DOMAIN people
    THEN people["Zone_or_ZoneList_or_Space_or_SpaceList_Name"]
    ELSE people["Zone_Name"]

Target(key, suffix, sensor, zone) ==
    [df_key |-> key, ems_suffix |-> suffix, sensor_key |-> sensor, zone_name |-> zone]

\* a faulty variant of the SpaceList branch: the space itself is taken as the zone
SpaceMemberTargetZoneIsSpace(s, p_name, parent_zone) ==
    Target(JoinSpace(s, p_name), SanitizeEmsName(JoinUnderscore(s, p_name)),
           JoinSpace(s, p_name), s)

\* the target appended for the space s (a SpaceList member or the container
\* itself) whose Space object names parent_zone
SpaceMemberTarget(s, p_name, parent_zone) ==
    Target(JoinSpace(s, p_name), SanitizeEmsName(JoinUnderscore(s, p_name)),
           JoinSpace(s, p_name), parent_zone)

\* a faulty variant of the direct-zone branch: the key is compound as in the others
DirectZoneTargetCompoundKey(container_name, p_name) ==
    Target(JoinSpace(container_name, p_name),
           SanitizeEmsName(JoinUnderscore(container_name, p_name)),
           JoinSpace(container_name, p_name), container_name)

\* PRIORITY 4: the target appended for a container taken as a zone
DirectZoneTarget(container_name, p_name) ==
    Target(container_name, SanitizeEmsName(container_name), p_name, container_name)

\* a faulty variant of SpaceListTargets: the loop ends at the first member
\* that has no Space object
RECURSIVE SpaceListTargetsUntilMissing(_, _, _, _)
SpaceListTargetsUntilMissing(spaces_in_list, space_objs, p_name, container_name) ==
    IF spaces_in_list = <<>> THEN [targets |-> <<>>, warns |-> <<>>]
    ELSE
        LET s == Head(spaces_in_list)
            s_upper == UpperStrip(s)
            rest == SpaceListTargetsUntilMissing(Tail(spaces_in_list), space_objs,
                                                 p_name, container_name)
        IN  IF s_upper \in DictKeys(space_objs)
            THEN [targets |-> <<SpaceMemberTarget(s, p_name,
                                    DictGet(space_objs, s_upper).Zone_Name)>>
                                  \o rest.targets,
                  warns |-> rest.warns]
            ELSE [targets |-> <<>>,
                  warns |-> <<[kind |-> "space_not_in_SPACE", space |-> s,
                               list |-> container_name]>>]

\* PRIORITY 1: the loop over the members of a SpaceList.  Returns the
\* targets appended and the warnings emitted.
RECURSIVE SpaceListTargets(_, _, _, _)
SpaceListTargets(spaces_in_list, space_objs, p_name, container_name) ==
    IF spaces_in_list = <<>> THEN [targets |-> <<>>, warns |-> <<>>]
    ELSE
        LET s == Head(spaces_in_list)
            s_upper == UpperStrip(s)
            rest == SpaceListTargets(Tail(spaces_in_list), space_objs, p_name, container_name)
        IN  IF s_upper \in DictKeys(space_objs)
            THEN LET parent_zone == DictGet(space_objs, s_upper).Zone_Name
                 IN  [targets |-> <<SpaceMemberTarget(s, p_name, parent_zone)>>
                                     \o rest.targets,
                      warns |-> rest.warns]
            ELSE [targets |-> rest.targets,
                  warns |-> <<[kind |-> "space_not_in_SPACE", space |-> s,
                               list |-> container_name]>> \o rest.warns]

\* PRIORITY 2: the loop over the members of a ZoneList
ZoneListTargets(zones_in_list, p_name) ==
    [i \in 1..Len(zones_in_list) |->
        LET z == zones_in_list[i]
            full_key == JoinSpace(z, p_name)
        IN  Target(full_key, SanitizeEmsName(JoinUnderscore(z, p_name)), full_key, z)]

\* a faulty variant of the resolver's branch order: ZoneList is tried before SpaceList
ResolveZoneListFirst(b, people) ==
    LET zone_lists == ObjectsOrNone(b, "ZONELIST")
        space_lists == ObjectsOrNone(b, "SPACELIST")
        space_objs == ObjectsOrNone(b, "SPACE")
        container_name == ContainerName(people)
        p_name == people.Name
        c_name_upper == UpperStrip(container_name)
    IN  IF container_name = <<>>
        THEN [case |-> 0, targets |-> <<>>, warns |-> <<>>]
        ELSE IF c_name_upper \in DictKeys(zone_lists)
        THEN [case |-> 2,
              targets |-> ZoneListTargets(
                  GetItemsFromList(DictGet(zone_lists, c_name_upper).Zones), p_name),
              warns |-> <<>>]
        ELSE IF c_name_upper \in DictKeys(space_lists)
        THEN LET r == SpaceListTargets(
                     GetItemsFromList(DictGet(space_lists, c_name_upper).Spaces),
                     space_objs, p_name, container_name)
             IN  [case |-> 1, targets |-> r.targets, warns |-> r.warns]
        ELSE IF c_name_upper \in DictKeys(space_objs)
        THEN [case |-> 3,
              targets |-> <<SpaceMemberTarget(container_name, p_name,
                                DictGet(space_objs, c_name_upper).Zone_Name)>>,
              warns |-> <<>>]
        ELSE [case |-> 4,
              targets |-> <<DirectZoneTarget(container_name, p_name)>>,
              warns |-> <<>>]

\* One iteration of "for people in building.idfobjects['PEOPLE']": the
\* targets it appends, its warnings, and the branch it took (case: 0 when
\* the blank container made it continue, else the priority 1..4)
ResolvePeople(b, people) ==
    LET zone_lists == ObjectsOrNone(b, "ZONELIST")
        space_lists == ObjectsOrNone(b, "SPACELIST")
        space_objs == ObjectsOrNone(b, "SPACE")
        container_name == ContainerName(people)
        p_name == people.Name
        c_name_upper == UpperStrip(container_name)
    IN  IF container_name = <<>>
        THEN [case |-> 0, targets |-> <<>>, warns |-> <<>>]
        ELSE IF c_name_upper \in DictKeys(space_lists)
        THEN LET r == SpaceListTargets(
                     GetItemsFromList(DictGet(space_lists, c_name_upper).Spaces),
                     space_objs, p_name, container_name)
             IN  [case |-> 1, targets |-> r.targets, warns |-> r.warns]
        ELSE IF c_name_upper \in DictKeys(zone_lists)
        THEN [case |-> 2,
              targets |-> ZoneListTargets(
                  GetItemsFromList(DictGet(zone_lists, c_name_upper).Zones), p_name),
              warns |-> <<>>]
        ELSE IF c_name_upper \in DictKeys(space_objs)
        THEN [case |-> 3,
              targets |-> <<SpaceMemberTarget(container_name, p_name,
                                DictGet(space_objs, c_name_upper).Zone_Name)>>,
              warns |-> <<>>]
        ELSE [case |-> 4,
              targets |-> <<DirectZoneTarget(container_name, p_name)>>,
              warns |-> <<>>]

\* the iterations of the loop over the People objects, in order
Iterations(b) == [i \in 1..Len(b.PEOPLE) |-> ResolvePeople(b, b.PEOPLE[i])]

RECURSIVE FlattenField(_, _)
FlattenField(its, f) ==
    IF its = <<>> THEN <<>> ELSE Head(its)[f] \o FlattenField(Tail(its), f)

\* _resolve_targets: the list it returns
ResolveTargets(b) == FlattenField(Iterations(b), "targets")

\* the warnings of a _resolve_targets call
ResolveWarnings(b) == FlattenField(Iterations(b), "warns")

-----------------------------------------------------------------------------
(* Parameter table *)

\* the eight tunable fields, in the order of series_list
TunableFields ==
    <<"adap_coeff_cooling", "adap_coeff_heating", "pmv_cooling_sp", "pmv_heating_sp",
      "tolerance_cooling_sp_cooling_season", "tolerance_cooling_sp_heating_season",
      "tolerance_heating_sp_cooling_season", "tolerance_heating_sp_heating_season">>

\* An argument of a tunable field is a scalar, [scalar |-> v], or a dict,
\* [dict |-> <<key, value> pairs in insertion order>]: isinstance(arg_val, dict)
IsDict(arg_val) == "dict" \in DOMAIN arg_val

RECURSIVE Dedup(_)
\* the keys of a Python dict filled in the order of seq: each once, at the
\* place of its first occurrence
Dedup(seq) ==
    IF seq = <<>> THEN <<>>
    ELSE LET front == Dedup(SubSeq(seq, 1, Len(seq) - 1))
             last == seq[Len(seq)]
         IN  IF \E i \in 1..Len(front) : front[i] = last THEN front
             ELSE Append(front, last)

\* the keys of the dictionary "data", in insertion order
DictKeyOrder(seq) == Dedup(seq)

\* arg_val.get(k, default_val) on a dict given as pairs (a later pair of the
\* same key has overwritten an earlier one)
PairsGet(pairs, k, default_val) ==
    LET hits == {i \in 1..Len(pairs) : pairs[i][1] = k}
    IN  IF hits = {} THEN default_val
        ELSE pairs[CHOOSE i \in hits : \A j \in hits : j <= i][2]

\* a faulty variant of process_arg: a scalar is ignored and the default is used
ProcessArgDefaultForScalar(arg_val, arg_name, default_val, space_ppl_names) ==
    [data |-> [k \in {space_ppl_names[j] : j \in 1..Len(space_ppl_names)} |->
                  PairsGet(IF IsDict(arg_val) THEN arg_val.dict ELSE <<>>, k, default_val)],
     warns |-> <<>>]

\* a faulty variant of process_arg: the keys that are no target are dropped
\* without a warning
ProcessArgSilentDrop(arg_val, arg_name, default_val, space_ppl_names) ==
    [data |-> [k \in {space_ppl_names[j] : j \in 1..Len(space_ppl_names)} |->
                  IF IsDict(arg_val) THEN PairsGet(arg_val.dict, k, default_val)
                  ELSE arg_val.scalar],
     warns |-> <<>>]

\* process_arg: the Series of one field (a function of the target keys) and
\* the warnings emitted
ProcessArg(arg_val, arg_name, default_val, space_ppl_names) ==
    LET keys == {space_ppl_names[j] : j \in 1..Len(space_ppl_names)}
    IN  IF IsDict(arg_val)
        THEN LET pairs == arg_val.dict
                 dropped == SelectSeq([i \in 1..Len(pairs) |-> pairs[i][1]],
                                      LAMBDA k : k \notin keys)
             IN  [data |-> [k \in keys |-> PairsGet(pairs, k, default_val)],
                  warns |-> IF dropped # <<>>
                            THEN <<[kind |-> "keys_dropped", arg |-> arg_name,
                                    keys |-> dropped]>>
                            ELSE <<>>]
        ELSE [data |-> [k \in keys |-> arg_val.scalar], warns |-> <<>>]

\* dict(zip(target_keys_input, ems_suffixes))[k]: the suffix zipped with the
\* last occurrence of k
SuffixMap(target_keys_input, ems_suffixes, k) ==
    LET n == IF Len(target_keys_input) < Len(ems_suffixes)
             THEN Len(target_keys_input) ELSE Len(ems_suffixes)
        hits == {i \in 1..n : target_keys_input[i] = k}
    IN  ems_suffixes[CHOOSE i \in hits : \A j \in hits : j <= i]

\* the dflt_for_<field> argument that goes with a tunable field
DefaultOf(a, f) == a.dflt[f]

\* generate_df_from_args: the table as the sequence of its rows, in index
\* order; a row is [key, one value per tunable field, underscore_zonename].
\* a is the record of the keyword arguments.
GenerateDfFromArgs(target_keys_input, ems_suffixes, a) ==
    LET index == DictKeyOrder(target_keys_input)
        series == [n \in 1..Len(TunableFields) |->
                      ProcessArg(a[TunableFields[n]], TunableFields[n],
                                 DefaultOf(a, TunableFields[n]), target_keys_input)]
    IN  [rows |-> [r \in 1..Len(index) |->
                      [key |-> index[r],
                       val |-> [f \in {TunableFields[n] : n \in 1..Len(TunableFields)} |->
                                   series[CHOOSE n \in 1..Len(TunableFields) :
                                              TunableFields[n] = f].data[index[r]]],
                       underscore_zonename |->
                           SuffixMap(target_keys_input, ems_suffixes, index[r])]],
         warns |-> FlattenField(series, "warns")]

-----------------------------------------------------------------------------
(* The object lists of the model *)

\* [o.Name for o in objs]
NamesOf(objs) == {objs[i].Name : i \in 1..Len(objs)}

\* building.newidfobject(KEY, ...): the object is appended to its class
NewIdfObject(b, key, obj) == [b EXCEPT ![key] = Append(@, obj)]

\* a faulty variant of the loop below: every candidate is appended, whether
\* its name is among names or not
AppendAlways(b, key, candidates, name_field, names) ==
    [b EXCEPT ![key] = @ \o candidates]

\* a loop "for x in candidates: if x.<name> not in names: newidfobject(...)"
\* where names was read before the loop: the objects whose name is not among
\* names are appended in order
AppendMissing(b, key, candidates, name_field, names) ==
    [b EXCEPT ![key] = @ \o SelectSeq(candidates, LAMBDA o : o[name_field] \notin names)]

RemoveAt(seq, i) == SubSeq(seq, 1, i - 1) \o SubSeq(seq, i + 1, Len(seq))

\* the literals of the f-strings, each kept as one symbol
Lit(text) == <<text>>

FangerType == "ThermostatSetpoint:ThermalComfort:Fanger:DualSetpoint"

-----------------------------------------------------------------------------
(* Schedules and thermostats *)

\* 'PMV_H_SP' and 'PMV_C_SP', spelled out: the schedule names are built from
\* them here and from 'PMV_', 'H' or 'C' and '_SP_' in the actuators
PMV_H_SP == <<"P", "M", "V", "_", "H", "_", "S", "P">>
PMV_C_SP == <<"P", "M", "V", "_", "C", "_", "S", "P">>

\* f'{i}_{zone}' for i in ['PMV_H_SP', 'PMV_C_SP']
PmvScheduleName(i, zone) == i \o <<"_">> \o zone

ConstantSchedule(name, field_3) ==
    [Name |-> name,
     Schedule_Type_Limits_Name |-> "Any Number",
     Field_1 |-> "Through: 12/31",
     Field_2 |-> "For: AllDays",
     Field_3 |-> field_3]

\* the value a Field_3 of the source gives the schedule, in thousandths:
\* the number after the comma of 'Until: 24:00,<value>'
UntilValue(field_3) ==
    CASE field_3 = "Until: 24:00,1" -> 1000
      [] field_3 = "Until: 24:00,4" -> 4000

\* the inner loop "for zone in unique_zones" of the schedule creation;
\* sch_comp_objs are the schedule names read before the loops
AddPmvSchedules(b, i, zones, sch_comp_objs) ==
    AppendMissing(b, "ScheduleCompact",
        [n \in 1..Len(zones) |->
            ConstantSchedule(PmvScheduleName(i, zones[n]), "Until: 24:00,1")],
        "Name", sch_comp_objs)

FangerSetpointName(zone) == Lit("Fanger Setpoint ") \o zone

\* a faulty variant of _update_fanger_object: the object is created when
\* missing, its schedule fields are left as they are
UpdateFangerObjectUnlinked(b, obj_name, zone) ==
    IF \E i \in 1..Len(b.Fanger) : b.Fanger[i].Name = obj_name THEN b
    ELSE NewIdfObject(b, "Fanger",
             [Name |-> obj_name,
              Fanger_Thermal_Comfort_Heating_Schedule_Name |-> <<>>,
              Fanger_Thermal_Comfort_Cooling_Schedule_Name |-> <<>>])

\* _update_fanger_object
UpdateFangerObject(b, obj_name, zone) ==
    LET found == {i \in 1..Len(b.Fanger) : b.Fanger[i].Name = obj_name}
        b1 == IF found = {}
              THEN NewIdfObject(b, "Fanger",
                       [Name |-> obj_name,
                        Fanger_Thermal_Comfort_Heating_Schedule_Name |-> <<>>,
                        Fanger_Thermal_Comfort_Cooling_Schedule_Name |-> <<>>])
              ELSE b
        at == IF found = {} THEN Len(b1.Fanger)
              ELSE CHOOSE i \in found : \A j \in found : i <= j
    IN  [b1 EXCEPT !.Fanger[at].Fanger_Thermal_Comfort_Heating_Schedule_Name =
                        <<"P", "M", "V", "_", "H", "_", "S", "P", "_">> \o zone,
                   !.Fanger[at].Fanger_Thermal_Comfort_Cooling_Schedule_Name =
                        <<"P", "M", "V", "_", "C", "_", "S", "P", "_">> \o zone]

\* _create_tc_thermostat
CreateTcThermostat(b, zone) ==
    LET sch_name == Lit("Thermal Comfort Control Type Schedule Name ") \o zone
        b1 == IF sch_name \notin NamesOf(b.ScheduleCompact)
              THEN NewIdfObject(b, "ScheduleCompact",
                                ConstantSchedule(sch_name, "Until: 24:00,4"))
              ELSE b
        b2 == NewIdfObject(b1, "ThermalComfort",
                  [Name |-> Lit("Thermostat Setpoint Dual Setpoint ") \o zone,
                   Zone_or_ZoneList_Name |-> zone,
                   Thermal_Comfort_Control_Type_Schedule_Name |-> sch_name,
                   Thermal_Comfort_Control_1_Object_Type |-> FangerType,
                   Thermal_Comfort_Control_1_Name |-> FangerSetpointName(zone)])
    IN  UpdateFangerObject(b2, FangerSetpointName(zone), zone)

\* {t.Zone_or_ZoneList_Name.upper(): t for t in objs}: its keys, and the
\* object kept for a key (the last one of that key)
ZoneKeys(objs) == {StrUpper(objs[i].Zone_or_ZoneList_Name) : i \in 1..Len(objs)}
ZoneKeyGet(objs, key) ==
    LET hits == {i \in 1..Len(objs) : StrUpper(objs[i].Zone_or_ZoneList_Name) = key}
    IN  objs[CHOOSE i \in hits : \A j \in hits : j <= i]

\* where an object is in a list now, 0 when it is no longer there
PositionOf(objs, obj) ==
    LET hits == {i \in 1..Len(objs) : objs[i] = obj}
    IN  IF hits = {} THEN 0 ELSE CHOOSE i \in hits : \A j \in hits : i <= j

\* The loop "for zone in unique_zones" over the thermostats.  old and old_tc
\* are the thermostat lists read before the loop (existing_thermostats and
\* existing_tc_thermostats are built from them).  Returns the model and
\* whether building.removeidfobject raised.
RECURSIVE EnsureThermostats(_, _, _, _)
EnsureThermostats(b, zones, old, old_tc) ==
    IF zones = <<>> THEN [b |-> b, raised |-> FALSE]
    ELSE
        LET zone == Head(zones)
            z_upper == StrUpper(zone)
        IN  IF z_upper \notin ZoneKeys(old) /\ z_upper \notin ZoneKeys(old_tc)
            THEN EnsureThermostats(CreateTcThermostat(b, zone), Tail(zones), old, old_tc)
            ELSE IF z_upper \in ZoneKeys(old) /\ z_upper \notin ZoneKeys(old_tc)
            THEN LET old_t == ZoneKeyGet(old, z_upper)
                     at == PositionOf(b.Thermostat, old_t)
                 IN  IF at = 0
                     THEN [b |-> b, raised |-> TRUE]
                     ELSE EnsureThermostats(
                              CreateTcThermostat(
                                  [b EXCEPT !.Thermostat = RemoveAt(@, at)], zone),
                              Tail(zones), old, old_tc)
            ELSE LET hits == {i \in 1..Len(old_tc) :
                                 StrUpper(old_tc[i].Zone_or_ZoneList_Name) = z_upper}
                     at == CHOOSE i \in hits : \A j \in hits : j <= i
                     b1 == IF b.ThermalComfort[at].Thermal_Comfort_Control_1_Object_Type
                              # FangerType
                           THEN [b EXCEPT
                                   !.ThermalComfort[at].Thermal_Comfort_Control_1_Object_Type =
                                       FangerType,
                                   !.ThermalComfort[at].Thermal_Comfort_Control_1_Name =
                                       FangerSetpointName(zone)]
                           ELSE b
                 IN  EnsureThermostats(
                         UpdateFangerObject(b1, FangerSetpointName(zone), zone),
                         Tail(zones), old, old_tc)

\* _ensure_infrastructure
EnsureInfrastructure(b, unique_zones) ==
    LET sch_comp_objs == NamesOf(b.ScheduleCompact)
        b1 == AddPmvSchedules(b, PMV_H_SP, unique_zones, sch_comp_objs)
        b2 == AddPmvSchedules(b1, PMV_C_SP, unique_zones, sch_comp_objs)
    IN  EnsureThermostats(b2, unique_zones, b2.Thermostat, b2.ThermalComfort)

-----------------------------------------------------------------------------
(* EMS sensors, global variables and actuators *)

\* the two sensors of the i-th suffix
SensorsOf(sensor_keys, suffixes, i) ==
    << [Name |-> <<"P", "M", "V", "_">> \o suffixes[i],
        OutputVariable_or_OutputMeter_Index_Key_Name |-> sensor_keys[i],
        OutputVariable_or_OutputMeter_Name |-> "Zone Thermal Comfort Fanger Model PMV"],
       [Name |-> Lit("People_Occupant_Count_") \o suffixes[i],
        OutputVariable_or_OutputMeter_Index_Key_Name |-> sensor_keys[i],
        OutputVariable_or_OutputMeter_Name |-> "People Occupant Count"] >>

RECURSIVE Concat(_)
Concat(seqs) == IF seqs = <<>> THEN <<>> ELSE Head(seqs) \o Concat(Tail(seqs))

\* _add_apmv_sensors: sensornamelist is read once, before the loop
AddApmvSensors(b, sensor_keys, suffixes) ==
    AppendMissing(b, "Sensor",
        Concat([i \in 1..Len(suffixes) |-> SensorsOf(sensor_keys, suffixes, i)]),
        "Name", NamesOf(b.Sensor))

\* the prefixes of the per-target global variables
GlobalVariablePrefixes ==
    <<"tolerance_cooling_sp", "tolerance_cooling_sp_cooling_season",
      "tolerance_cooling_sp_heating_season",
      "tolerance_heating_sp", "tolerance_heating_sp_cooling_season",
      "tolerance_heating_sp_heating_season",
      "adap_coeff", "adap_coeff_heating", "adap_coeff_cooling",
      "pmv_heating_sp", "pmv_cooling_sp", "aPMV",
      "comfhour", "discomfhour", "discomfhour_heat", "discomfhour_cold", "occupied_hour",
      "aPMV_H_SP", "aPMV_C_SP", "aPMV_H_SP_noTol", "aPMV_C_SP_noTol">>

\* f'{prefix}_{suffix}' for prefix in prefixes for suffix in suffixes
RECURSIVE PrefixedNames(_, _)
PrefixedNames(prefixes, suffixes) ==
    IF prefixes = <<>> THEN <<>>
    ELSE [i \in 1..Len(suffixes) |-> Lit(Head(prefixes)) \o <<"_">> \o suffixes[i]]
         \o PrefixedNames(Tail(prefixes), suffixes)

\* _add_apmv_global_variables: existing is read once, before the loops
AddApmvGlobalVariables(b, suffixes) ==
    LET existing == {b.GlobalVariable[i].Erl_Variable_1_Name : i \in 1..Len(b.GlobalVariable)}
        names == <<Lit("CoolingSeason"), Lit("CoolSeasonEnd"), Lit("CoolSeasonStart")>>
                     \o PrefixedNames(GlobalVariablePrefixes, suffixes)
    IN  AppendMissing(b, "GlobalVariable",
            [n \in 1..Len(names) |-> [Erl_Variable_1_Name |-> names[n]]],
            "Erl_Variable_1_Name", existing)

\* f'PMV_{i}_SP_act_{suffix}'
ActuatorName(i, suffix) ==
    <<"P", "M", "V", "_">> \o <<i>> \o <<"_", "S", "P", "_", "a", "c", "t", "_">> \o suffix

\* the actuator of one target for i in ['H', 'C']
ActuatorOf(i, target) ==
    [Name |-> ActuatorName(i, target.ems_suffix),
     Actuated_Component_Unique_Name |->
         <<"P", "M", "V", "_">> \o <<i>> \o <<"_", "S", "P", "_">> \o target.zone_name,
     Actuated_Component_Type |-> "Schedule:Compact",
     Actuated_Component_Control_Type |-> "Schedule Value"]

\* _add_apmv_actuators: actuatornamelist is read once, before the loop
AddApmvActuators(b, target_data) ==
    AppendMissing(b, "Actuator",
        Concat([n \in 1..Len(target_data) |->
                   <<ActuatorOf("H", target_data[n]), ActuatorOf("C", target_data[n])>>]),
        "Name", NamesOf(b.Actuator))

-----------------------------------------------------------------------------
(* EMS programs, calling managers and outputs *)

\* A program is its name and its lines.  The lines that are the same text
\* for every call are kept as the kind of the program and the suffix put in
\* them; the values formatted into the lines are kept as numbers.
Program(name, lines) == [Name |-> name, Lines |-> lines]

\* the four programs of one suffix whose row of the table is row
TargetPrograms(suffix, row) ==
    << Program(Lit("set_zone_input_data_") \o suffix,
               [kind |-> "set_zone_input_data", suffix |-> suffix, set |-> row.val]),
       Program(Lit("apply_aPMV_") \o suffix,
               [kind |-> "apply_aPMV", suffix |-> suffix,
                act_h |-> ActuatorName("H", suffix),
                act_c |-> ActuatorName("C", suffix)]),
       Program(Lit("monitor_aPMV_") \o suffix,
               [kind |-> "monitor_aPMV", suffix |-> suffix]),
       Program(Lit("count_aPMV_comfort_hours_") \o suffix,
               [kind |-> "count_aPMV_comfort_hours", suffix |-> suffix]) >>

\* the programs of one iteration of "for suffix in suffixes": none when no
\* row of the table carries the suffix (IndexError: continue), else those
\* of the first such row
ProgramsOfSuffix(suffix, df_arguments) ==
    LET hits == {r \in 1..Len(df_arguments) : df_arguments[r].underscore_zonename = suffix}
    IN  IF hits = {} THEN <<>>
        ELSE TargetPrograms(suffix, df_arguments[CHOOSE r \in hits : \A q \in hits : r <= q])

\* _add_apmv_programs: programlist is read once, before any creation
AddApmvPrograms(b, suffixes, df_arguments, cool_start, cool_end) ==
    AppendMissing(b, "Program",
        << Program(Lit("set_cooling_season_input_data"),
                   [kind |-> "set_cooling_season_input_data",
                    CoolSeasonStart |-> cool_start, CoolSeasonEnd |-> cool_end]),
           Program(Lit("set_cooling_season"), [kind |-> "set_cooling_season"]) >>
        \o Concat([n \in 1..Len(suffixes) |-> ProgramsOfSuffix(suffixes[n], df_arguments)]),
        "Name", NamesOf(b.Program))

\* _add_apmv_program_calling_managers: programlist and pcmlist are read once
AddApmvProgramCallingManagers(b) ==
    AppendMissing(b, "ProgramCallingManager",
        [i \in 1..Len(b.Program) |->
            [Name |-> b.Program[i].Name,
             EnergyPlus_Model_Calling_Point |-> "BeginTimestepBeforePredictor",
             Program_Name_1 |-> b.Program[i].Name]],
        "Name", NamesOf(b.ProgramCallingManager))

\* EMSOutputVariableZone_dict, in order: key, variable prefix, units, type
EmsOutputVariableZone ==
    << <<"Adaptive Coefficient", "adap_coeff", "", "Averaged">>,
       <<"aPMV", "aPMV", "", "Averaged">>,
       <<"aPMV Heating Setpoint", "aPMV_H_SP", "", "Averaged">>,
       <<"aPMV Cooling Setpoint", "aPMV_C_SP", "", "Averaged">>,
       <<"aPMV Heating Setpoint No Tolerance", "aPMV_H_SP_noTol", "", "Averaged">>,
       <<"aPMV Cooling Setpoint No Tolerance", "aPMV_C_SP_noTol", "", "Averaged">>,
       <<"Comfortable Hours", "comfhour", "H", "Summed">>,
       <<"Discomfortable Hot Hours", "discomfhour_heat", "H", "Summed">>,
       <<"Discomfortable Cold Hours", "discomfhour_cold", "H", "Summed">>,
       <<"Discomfortable Total Hours", "discomfhour", "H", "Summed">>,
       <<"Occupied hours", "occupied_hour", "H", "Summed">> >>

\* the EMS output variables to create: one per dictionary entry and suffix
RECURSIVE EmsOutputVariablesOf(_, _)
EmsOutputVariablesOf(entries, suffixes) ==
    IF entries = <<>> THEN <<>>
    ELSE [i \in 1..Len(suffixes) |->
            [Name |-> Lit(Head(entries)[1]) \o <<"_">> \o suffixes[i],
             EMS_Variable_Name |-> Lit(Head(entries)[2]) \o <<"_">> \o suffixes[i],
             Type_of_Data_in_Variable |-> Head(entries)[4],
             Update_Frequency |-> "ZoneTimestep",
             Units |-> Head(entries)[3]]]
         \o EmsOutputVariablesOf(Tail(entries), suffixes)

OutputVariableObject(key_value, variable_name, frequency) ==
    [Key_Value |-> key_value, Variable_Name |-> variable_name,
     Reporting_Frequency |-> frequency]

\* outvar.startswith("WIP")
StartsWithWIP(name) ==
    Len(name) >= 3 /\ name[1] = "W" /\ name[2] = "I" /\ name[3] = "P"

\* newidfobject('Output:Variable', Key_Value='*', Variable_Name=name,
\* Reporting_Frequency=frequency) for each of names
AddOutputVariables(b, names, frequency) ==
    [b EXCEPT !.OutputVariable = @ \o
        [n \in 1..Len(names) |-> OutputVariableObject(<<"*">>, names[n], frequency)]]

\* the loop "for zone in unique_zones" of the schedule outputs, for one i:
\* every object is created, whatever the model already holds
AddScheduleOutputs(b, i, zones, frequency) ==
    [b EXCEPT !.OutputVariable = @ \o
        [n \in 1..Len(zones) |->
            OutputVariableObject(PmvScheduleName(i, zones[n]), Lit("Schedule Value"),
                                 frequency)]]

AdditionalOutputs ==
    <<Lit("Zone Operative Temperature"), Lit("Zone Thermal Comfort Fanger Model PMV"),
      Lit("Zone Thermal Comfort Fanger Model PPD"), Lit("Zone Mean Air Temperature")>>

\* the loop "for freq in outputs_freq"
RECURSIVE AddOutputsPerFrequency(_, _, _, _)
AddOutputsPerFrequency(b, outputs_freq, other_PMV_related_outputs, unique_zones) ==
    IF outputs_freq = <<>> THEN b
    ELSE
        LET frequency == Capitalize(Head(outputs_freq))
            current_outputs ==
                {b.OutputVariable[n].Variable_Name :
                    n \in {m \in 1..Len(b.OutputVariable) :
                              b.OutputVariable[m].Reporting_Frequency = frequency}}
            b1 == AddOutputVariables(b,
                      SelectSeq([n \in 1..Len(b.EmsOutputVariable) |->
                                    b.EmsOutputVariable[n].Name],
                                LAMBDA outvar : outvar \notin current_outputs
                                                /\ ~StartsWithWIP(outvar)),
                      frequency)
            b2 == AddScheduleOutputs(b1, PMV_H_SP, unique_zones, frequency)
            b3 == AddScheduleOutputs(b2, PMV_C_SP, unique_zones, frequency)
            b4 == IF other_PMV_related_outputs
                  THEN AddOutputVariables(b3,
                           SelectSeq(AdditionalOutputs,
                                     LAMBDA item : item \notin current_outputs),
                           frequency)
                  ELSE b3
        IN  AddOutputsPerFrequency(b4, Tail(outputs_freq), other_PMV_related_outputs,
                                   unique_zones)

\* _add_apmv_outputs
AddApmvOutputs(b, outputs_freq, other_PMV_related_outputs, suffixes, unique_zones) ==
    LET b1 == AppendMissing(b, "EmsOutputVariable",
                            EmsOutputVariablesOf(EmsOutputVariableZone, suffixes),
                            "Name", NamesOf(b.EmsOutputVariable))
        b2 == AddOutputsPerFrequency(b1, outputs_freq, other_PMV_related_outputs,
                                     unique_zones)
    IN  IF b2.OutputControlFiles = <<>>
        THEN NewIdfObject(b2, "OutputControlFiles",
                 [Output_CSV |-> "Yes", Output_MTR |-> "Yes", Output_ESO |-> "Yes"])
        ELSE [b2 EXCEPT !.OutputControlFiles[1] =
                 [@ EXCEPT !.Output_CSV = "Yes", !.Output_MTR = "Yes", !.Output_ESO = "Yes"]]

-----------------------------------------------------------------------------
(* The generated programs as EnergyPlus runs them *)

\* An Erl number is an exact fraction n/d in lowest terms with d > 0.
RECURSIVE GCD(_, _)
GCD(a, b) == IF b = 0 THEN a ELSE GCD(b, a % b)
Abs(i) == IF i < 0 THEN -i ELSE i
Rat(n, d) ==
    LET g == GCD(Abs(n), Abs(d))
        s == IF d < 0 THEN -1 ELSE 1
    IN  [n |-> (s * n) \div g, d |-> (s * d) \div g]
Whole(i) == Rat(i, 1)
\* a number the source formats into a program line, kept in thousandths
Thousandths(v) == Rat(v, 1000)
AddR(x, y) == Rat(x.n * y.d + y.n * x.d, x.d * y.d)
MulR(x, y) == Rat(x.n * y.n, x.d * y.d)
DivR(x, y) == Rat(x.n * y.d, x.d * y.n)
LtR(x, y) == x.n * y.d < y.n * x.d
Truth(p) == IF p THEN Whole(1) ELSE Whole(0)

\* expressions and statements of a program
Num(r) == [k |-> "num", r |-> r]
Var(name) == [k |-> "var", v |-> name]
Bin(l, op, r) == [k |-> op, l |-> l, r |-> r]
SetLine(name, expr) == [op |-> "set", v |-> name, e |-> expr]
Branch(cond, body) == [c |-> cond, body |-> body]
\* if / elseif ... / else / endif
IfBlock(branches, else_body) == [op |-> "if", branches |-> branches, else |-> else_body]

\* f'{prefix}_{suffix}'
ErlName(prefix, suffix) == Lit(prefix) \o <<"_">> \o suffix
\* f'PMV_{suffix}' and f'People_Occupant_Count_{suffix}', the sensors
PmvSensorName(suffix) == <<"P", "M", "V", "_">> \o suffix
OccupantSensorName(suffix) == Lit("People_Occupant_Count_") \o suffix

\* set_cooling_season_input_data (lines 431-432)
SeasonInputLines(cool_start, cool_end) ==
    << SetLine(Lit("CoolSeasonStart"), Num(Whole(cool_start))),
       SetLine(Lit("CoolSeasonEnd"), Num(Whole(cool_end))) >>

\* set_cooling_season with the two tests of DayOfYear given: the lines of
\* the source are SeasonLinesWith of its own two tests
SeasonLinesWith(plain_test, wrap_test) ==
    << IfBlock(
         << Branch(Bin(Var(Lit("CoolSeasonEnd")), ">", Var(Lit("CoolSeasonStart"))),
                   << IfBlock(<< Branch(plain_test,
                                        << SetLine(Lit("CoolingSeason"), Num(Whole(1))) >>) >>,
                              << SetLine(Lit("CoolingSeason"), Num(Whole(0))) >>) >>),
            Branch(Bin(Var(Lit("CoolSeasonStart")), ">", Var(Lit("CoolSeasonEnd"))),
                   << IfBlock(<< Branch(wrap_test,
                                        << SetLine(Lit("CoolingSeason"), Num(Whole(1))) >>) >>,
                              << SetLine(Lit("CoolingSeason"), Num(Whole(0))) >>) >>) >>,
         <<>>) >>

\* a faulty variant of SetCoolingSeasonLines: both bounds exclusive
SetCoolingSeasonLinesExclusive ==
    SeasonLinesWith(
        Bin(Bin(Var(Lit("DayOfYear")), ">", Var(Lit("CoolSeasonStart"))),
            "&&", Bin(Var(Lit("DayOfYear")), "<", Var(Lit("CoolSeasonEnd")))),
        Bin(Bin(Var(Lit("DayOfYear")), ">", Var(Lit("CoolSeasonStart"))),
            "||", Bin(Var(Lit("DayOfYear")), "<", Var(Lit("CoolSeasonEnd")))))

\* a faulty variant of SetCoolingSeasonLines: the wrap-around test is the
\* else of "CoolSeasonEnd > CoolSeasonStart", so a season whose start is its
\* end is classified too
SetCoolingSeasonLinesElse ==
    << IfBlock(
         << Branch(Bin(Var(Lit("CoolSeasonEnd")), ">", Var(Lit("CoolSeasonStart"))),
                   << IfBlock(<< Branch(Bin(Bin(Var(Lit("DayOfYear")), ">=",
                                                Var(Lit("CoolSeasonStart"))),
                                            "&&",
                                            Bin(Var(Lit("DayOfYear")), "<",
                                                Var(Lit("CoolSeasonEnd")))),
                                        << SetLine(Lit("CoolingSeason"), Num(Whole(1))) >>) >>,
                              << SetLine(Lit("CoolingSeason"), Num(Whole(0))) >>) >>) >>,
         << IfBlock(<< Branch(Bin(Bin(Var(Lit("DayOfYear")), ">=",
                                      Var(Lit("CoolSeasonStart"))),
                                  "||",
                                  Bin(Var(Lit("DayOfYear")), "<",
                                      Var(Lit("CoolSeasonEnd")))),
                              << SetLine(Lit("CoolingSeason"), Num(Whole(1))) >>) >>,
                    << SetLine(Lit("CoolingSeason"), Num(Whole(0))) >>) >>) >>

\* set_cooling_season (lines 434-444)
SetCoolingSeasonLines ==
    SeasonLinesWith(
        Bin(Bin(Var(Lit("DayOfYear")), ">=", Var(Lit("CoolSeasonStart"))),
            "&&", Bin(Var(Lit("DayOfYear")), "<", Var(Lit("CoolSeasonEnd")))),
        Bin(Bin(Var(Lit("DayOfYear")), ">=", Var(Lit("CoolSeasonStart"))),
            "||", Bin(Var(Lit("DayOfYear")), "<", Var(Lit("CoolSeasonEnd")))))

\* set_zone_input_data_{suffix} (lines 454-461): values is the row of the table
ZoneInputLines(suffix, values) ==
    << SetLine(ErlName("adap_coeff_cooling", suffix),
               Num(Thousandths(values.adap_coeff_cooling))),
       SetLine(ErlName("adap_coeff_heating", suffix),
               Num(Thousandths(values.adap_coeff_heating))),
       SetLine(ErlName("pmv_cooling_sp", suffix),
               Num(Thousandths(values.pmv_cooling_sp))),
       SetLine(ErlName("pmv_heating_sp", suffix),
               Num(Thousandths(values.pmv_heating_sp))),
       SetLine(ErlName("tolerance_cooling_sp_cooling_season", suffix),
               Num(Thousandths(values.tolerance_cooling_sp_cooling_season))),
       SetLine(ErlName("tolerance_cooling_sp_heating_season", suffix),
               Num(Thousandths(values.tolerance_cooling_sp_heating_season))),
       SetLine(ErlName("tolerance_heating_sp_cooling_season", suffix),
               Num(Thousandths(values.tolerance_heating_sp_cooling_season))),
       SetLine(ErlName("tolerance_heating_sp_heating_season", suffix),
               Num(Thousandths(values.tolerance_heating_sp_heating_season))) >>

\* a faulty variant of ApmvTransform: f'{sp}/(1+adap_coeff_{suffix})'
ApmvTransformNoProduct(sp, suffix) ==
    Bin(Var(sp), "/", Bin(Num(Whole(1)), "+", Var(ErlName("adap_coeff", suffix))))

\* f'{sp}/(1+adap_coeff_{suffix}*{sp})'
ApmvTransform(sp, suffix) ==
    Bin(Var(sp), "/",
        Bin(Num(Whole(1)), "+", Bin(Var(ErlName("adap_coeff", suffix)), "*", Var(sp))))

\* lines 1 to 13 of apply_aPMV_{suffix} (lines 467-479)
SetpointLines(suffix) ==
    << IfBlock(
         << Branch(Bin(Var(Lit("CoolingSeason")), "==", Num(Whole(1))),
                   << SetLine(ErlName("adap_coeff", suffix),
                              Var(ErlName("adap_coeff_cooling", suffix))),
                      SetLine(ErlName("tolerance_cooling_sp", suffix),
                              Var(ErlName("tolerance_cooling_sp_cooling_season", suffix))),
                      SetLine(ErlName("tolerance_heating_sp", suffix),
                              Var(ErlName("tolerance_heating_sp_cooling_season", suffix))) >>),
            Branch(Bin(Var(Lit("CoolingSeason")), "==", Num(Whole(0))),
                   << SetLine(ErlName("adap_coeff", suffix),
                              Var(ErlName("adap_coeff_heating", suffix))),
                      SetLine(ErlName("tolerance_cooling_sp", suffix),
                              Var(ErlName("tolerance_cooling_sp_heating_season", suffix))),
                      SetLine(ErlName("tolerance_heating_sp", suffix),
                              Var(ErlName("tolerance_heating_sp_heating_season", suffix))) >>) >>,
         <<>>),
       SetLine(ErlName("aPMV_H_SP_noTol", suffix),
               ApmvTransform(ErlName("pmv_heating_sp", suffix), suffix)),
       SetLine(ErlName("aPMV_C_SP_noTol", suffix),
               ApmvTransform(ErlName("pmv_cooling_sp", suffix), suffix)),
       SetLine(ErlName("aPMV_H_SP", suffix),
               Bin(Var(ErlName("aPMV_H_SP_noTol", suffix)), "+",
                   Var(ErlName("tolerance_heating_sp", suffix)))),
       SetLine(ErlName("aPMV_C_SP", suffix),
               Bin(Var(ErlName("aPMV_C_SP_noTol", suffix)), "+",
                   Var(ErlName("tolerance_cooling_sp", suffix)))) >>

\* a faulty variant of OccupiedLines: the setpoints reach the actuators
\* whatever their sign
OccupiedLinesUnclamped(suffix, act_h, act_c) ==
    << SetLine(act_h, Var(ErlName("aPMV_H_SP", suffix))),
       SetLine(act_c, Var(ErlName("aPMV_C_SP", suffix))) >>

\* lines 15 to 24 of apply_aPMV_{suffix} (lines 481-486): the occupied case
OccupiedLines(suffix, act_h, act_c) ==
    << IfBlock(<< Branch(Bin(Var(ErlName("aPMV_H_SP", suffix)), "<", Num(Whole(0))),
                         << SetLine(act_h, Var(ErlName("aPMV_H_SP", suffix))) >>) >>,
               << SetLine(act_h, Num(Whole(0))) >>),
       IfBlock(<< Branch(Bin(Var(ErlName("aPMV_C_SP", suffix)), ">", Num(Whole(0))),
                         << SetLine(act_c, Var(ErlName("aPMV_C_SP", suffix))) >>) >>,
               << SetLine(act_c, Num(Whole(0))) >>) >>

\* a faulty variant of ActuatorLines: the occupant count is not looked at
ActuatorLinesAlwaysOccupied(suffix, act_h, act_c) == OccupiedLines(suffix, act_h, act_c)

\* lines 14 to 28 of apply_aPMV_{suffix} (lines 480-489)
ActuatorLines(suffix, act_h, act_c) ==
    << IfBlock(<< Branch(Bin(Var(OccupantSensorName(suffix)), ">", Num(Whole(0))),
                         OccupiedLines(suffix, act_h, act_c)) >>,
               << SetLine(act_h, Num(Whole(-100))),
                  SetLine(act_c, Num(Whole(100))) >>) >>

\* apply_aPMV_{suffix} (lines 463-489)
ApplyApmvLines(suffix, act_h, act_c) ==
    SetpointLines(suffix) \o ActuatorLines(suffix, act_h, act_c)

\* monitor_aPMV_{suffix} (line 493)
MonitorLines(suffix) ==
    << SetLine(ErlName("aPMV", suffix), ApmvTransform(PmvSensorName(suffix), suffix)) >>

\* f'set {bin}_{suffix} = 1*ZoneTimeStep' or f'set {bin}_{suffix} = 0'
BinLine(bin, suffix, counted) ==
    SetLine(ErlName(bin, suffix),
            IF counted THEN Bin(Num(Whole(1)), "*", Var(Lit("ZoneTimeStep")))
            ELSE Num(Whole(0)))

\* count_aPMV_comfort_hours_{suffix} (lines 496-513)
CountLines(suffix) ==
    << IfBlock(
         << Branch(Bin(Var(ErlName("aPMV", suffix)), "<",
                       Var(ErlName("aPMV_H_SP_noTol", suffix))),
                   << BinLine("comfhour", suffix, FALSE),
                      BinLine("discomfhour_cold", suffix, TRUE),
                      BinLine("discomfhour_heat", suffix, FALSE) >>),
            Branch(Bin(Var(ErlName("aPMV", suffix)), ">",
                       Var(ErlName("aPMV_C_SP_noTol", suffix))),
                   << BinLine("comfhour", suffix, FALSE),
                      BinLine("discomfhour_cold", suffix, FALSE),
                      BinLine("discomfhour_heat", suffix, TRUE) >>) >>,
         << BinLine("comfhour", suffix, TRUE),
            BinLine("discomfhour_cold", suffix, FALSE),
            BinLine("discomfhour_heat", suffix, FALSE) >>),
       IfBlock(<< Branch(Bin(Var(OccupantSensorName(suffix)), ">", Num(Whole(0))),
                         << BinLine("occupied_hour", suffix, TRUE) >>) >>,
               << BinLine("occupied_hour", suffix, FALSE) >>),
       SetLine(ErlName("discomfhour", suffix),
               Bin(Var(ErlName("discomfhour_cold", suffix)), "+",
                   Var(ErlName("discomfhour_heat", suffix)))) >>

\* the lines of a program object; a program the model came with does
\* nothing to the variables of the generated ones
ErlLines(lines) ==
    CASE lines.kind = "set_cooling_season_input_data" ->
            SeasonInputLines(lines.CoolSeasonStart, lines.CoolSeasonEnd)
      [] lines.kind = "set_cooling_season" -> SetCoolingSeasonLines
      [] lines.kind = "set_zone_input_data" -> ZoneInputLines(lines.suffix, lines.set)
      [] lines.kind = "apply_aPMV" -> ApplyApmvLines(lines.suffix, lines.act_h, lines.act_c)
      [] lines.kind = "monitor_aPMV" -> MonitorLines(lines.suffix)
      [] lines.kind = "count_aPMV_comfort_hours" -> CountLines(lines.suffix)
      [] OTHER -> <<>>

\* The variables of a simulation: t maps the names that were assigned to
\* their values; fatal, once an expression could not be evaluated; strict,
\* whether this EnergyPlus build refuses a variable that was never assigned
\* (else it reads as 0); null, whether an expression of the current timestep
\* read a variable that was never assigned.
AssignVar(e, name, val) ==
    [e EXCEPT !.t = [x \in (DOMAIN e.t) \cup {name} |-> IF x = name THEN val ELSE e.t[x]]]

Failed == [v |-> Whole(0), err |-> TRUE]
Value(r) == [v |-> r, err |-> FALSE]

\* the operators the generated lines use; a division by zero fails
Operate(op, x, y) ==
    CASE op = "+" -> Value(AddR(x, y))
      [] op = "*" -> Value(MulR(x, y))
      [] op = "/" -> IF y.n = 0 THEN Failed ELSE Value(DivR(x, y))
      [] op = "<" -> Value(Truth(LtR(x, y)))
      [] op = ">" -> Value(Truth(LtR(y, x)))
      [] op = ">=" -> Value(Truth(~LtR(x, y)))
      [] op = "==" -> Value(Truth(x = y))
      [] op = "&&" -> Value(Truth(x.n # 0 /\ y.n # 0))
      [] op = "||" -> Value(Truth(x.n # 0 \/ y.n # 0))

RECURSIVE Eval(_, _)
Eval(x, e) ==
    CASE x.k = "num" -> Value(x.r)
      [] x.k = "var" -> IF x.v \in DOMAIN e.t THEN Value(e.t[x.v])
                        ELSE IF e.strict THEN Failed ELSE Value(Whole(0))
      [] OTHER -> LET l == Eval(x.l, e)
                      r == Eval(x.r, e)
                  IN  IF l.err \/ r.err THEN Failed ELSE Operate(x.k, l.v, r.v)

\* whether the expression names a variable that was never assigned
RECURSIVE Unassigned(_, _)
Unassigned(x, e) ==
    CASE x.k = "num" -> FALSE
      [] x.k = "var" -> x.v \notin DOMAIN e.t
      [] OTHER -> Unassigned(x.l, e) \/ Unassigned(x.r, e)
Noting(x, e) == [e EXCEPT !.null = @ \/ Unassigned(x, e)]

\* the statements run in order; the first expression that fails ends the
\* simulation
RECURSIVE Exec(_, _)
RECURSIVE ExecIf(_, _, _)
Exec(stmts, e) ==
    IF stmts = <<>> \/ e.fatal THEN e
    ELSE IF Head(stmts).op = "set"
    THEN LET x == Eval(Head(stmts).e, e)
         IN  IF x.err THEN [Noting(Head(stmts).e, e) EXCEPT !.fatal = TRUE]
             ELSE Exec(Tail(stmts),
                       AssignVar(Noting(Head(stmts).e, e), Head(stmts).v, x.v))
    ELSE Exec(Tail(stmts), ExecIf(Head(stmts).branches, Head(stmts).else, e))
ExecIf(branches, else_body, e) ==
    IF branches = <<>> THEN Exec(else_body, e)
    ELSE LET c == Eval(Head(branches).c, e)
         IN  IF c.err THEN [Noting(Head(branches).c, e) EXCEPT !.fatal = TRUE]
             ELSE IF c.v.n # 0 THEN Exec(Head(branches).body, Noting(Head(branches).c, e))
             ELSE ExecIf(Tail(branches), else_body, Noting(Head(branches).c, e))

\* the programs a manager names, run at its calling point
ProgramsNamed(b, name) ==
    SelectSeq(b.Program, LAMBDA p : p.Name = name)

\* the managers of BeginTimestepBeforePredictor in the order of the model,
\* each running its program
RECURSIVE RunManagers(_, _, _)
RunManagers(b, managers, e) ==
    IF managers = <<>> \/ e.fatal THEN e
    ELSE LET m == Head(managers)
             named == ProgramsNamed(b, m.Program_Name_1)
         IN  IF m.EnergyPlus_Model_Calling_Point = "BeginTimestepBeforePredictor"
                /\ named # <<>>
             THEN RunManagers(b, Tail(managers), Exec(ErlLines(named[1].Lines), e))
             ELSE RunManagers(b, Tail(managers), e)

\* the sensors of the model that report the variable of this name
SensorNames(b, variable) ==
    {b.Sensor[i].Name : i \in {j \in 1..Len(b.Sensor) :
        b.Sensor[j].OutputVariable_or_OutputMeter_Name = variable}}

\* the variables EnergyPlus sets before the programs of a timestep run
RECURSIVE AssignAll(_, _, _)
AssignAll(e, names, f) ==
    IF names = {} THEN e
    ELSE LET n == CHOOSE x \in names : TRUE
         IN  AssignAll(AssignVar(e, n, f[n]), names \ {n}, f)
WithInputs(e, day, step, occupants, pmv) ==
    AssignAll(
        AssignAll(
            AssignVar(AssignVar(e, Lit("DayOfYear"), Whole(day)), Lit("ZoneTimeStep"), step),
            DOMAIN occupants, occupants),
        DOMAIN pmv, pmv)

-----------------------------------------------------------------------------
(* Season boundaries *)

\* the days of the months of 2007
DaysInMonth == <<31, 28, 31, 30, 31, 30, 31, 31, 30, 31, 30, 31>>

RECURSIVE DaysBefore(_)
DaysBefore(month) == IF month <= 1 THEN 0 ELSE DaysInMonth[month - 1] + DaysBefore(month - 1)

\* transform_ddmm_to_int on "dd/mm" given as <<dd, mm>>: the day of the year,
\* or raised when date(2007, mm, dd) is no date
TransformDdmmToInt(ddmm) ==
    IF /\ ddmm[2] \in 1..12
       /\ ddmm[1] >= 1
       /\ ddmm[1] <= DaysInMonth[ddmm[2]]
    THEN [raised |-> FALSE, day |-> DaysBefore(ddmm[2]) + ddmm[1]]
    ELSE [raised |-> TRUE, day |-> 0]

\* a season boundary argument is a number, [day |-> n], or a string,
\* [ddmm |-> <<dd, mm>>]: isinstance(x, str) decides the conversion
SeasonDay(x) ==
    IF "ddmm" \in DOMAIN x THEN TransformDdmmToInt(x.ddmm)
    ELSE [raised |-> FALSE, day |-> x.day]

-----------------------------------------------------------------------------
(* The input models and arguments the specifications draw from *)

MaxPeople == 2      \* People objects in an input model
MaxCalls == 2       \* apply_apmv_setpoints invocations in a behaviour

nZ1 == <<"Z", "1">>
nZ1lower == <<"z", "1">>
nZ2 == <<"Z", "-", "2">>
nZX == <<"Z", "X">>                 \* names no zone of the model
nL == <<"L">>
nLref == <<"l", " ">>               \* "L" in another case, with a trailing blank
nS1 == <<"S", " ", "1">>
nS1ref == <<"s", " ", "1">>
nS9 == <<"S", "9">>                 \* names no Space of the model
PeopleNames == << <<"P">>, <<"Q", ":", "a">>, <<"R">> >>
ContainerRefs == {nZ1, nLref, nS1, nZX, <<>>}

\* the zones of every input model
Zones == << [Name |-> nZ1], [Name |-> nZ2] >>

\* the name of the People field that holds the container, by schema
ContainerField(schema) ==
    CASE schema = "zone" -> "Zone_Name"
      [] schema = "zonelist" -> "Zone_or_ZoneList_Name"
      [] schema = "space" -> "Zone_or_ZoneList_or_Space_or_SpaceList_Name"

PeopleObject(schema, n, container) ==
    [f \in {"Name", ContainerField(schema)} |->
        IF f = "Name" THEN PeopleNames[n] ELSE container]

\* the People lists: up to MaxPeople objects, the n-th named PeopleNames[n]
PeopleChoices(schema) ==
    UNION {
        { [n \in 1..k |-> PeopleObject(schema, n, c[n])] : c \in [1..k -> ContainerRefs] }
        : k \in 0..(IF MaxPeople < Len(PeopleNames) THEN MaxPeople ELSE Len(PeopleNames)) }

\* the one ZoneList has a blank field after its second zone
ZoneListChoices ==
    { <<>>,
      << [Name |-> nL, Zones |-> <<nZ1, nZ2, <<>>, nZX>>] >> }

SpaceChoices ==
    { <<>>,
      << [Name |-> nS1, Zone_Name |-> nZ1lower], [Name |-> nL, Zone_Name |-> nZ2] >> }

SpaceListChoices ==
    { <<>>,
      << [Name |-> nL, Spaces |-> <<nS1ref, nS9, nL>>] >> }

\* the thermostats the model comes with, for zone Z1
ThermostatChoices == {"none", "temperature", "comfort"}

\* the classes every schema has; the model with the thermal-comfort
\* thermostat also comes with an EMS program "U" of its own, called by its
\* manager "M", and with an OutputControl:Files object
CommonObjects(people, zone_lists, tstat) ==
    [ZONE |-> Zones,
     PEOPLE |-> people,
     ZONELIST |-> zone_lists,
     ScheduleCompact |-> <<>>,
     Thermostat |->
        IF tstat = "temperature"
        THEN << [Name |-> <<"T">>, Zone_or_ZoneList_Name |-> nZ1] >>
        ELSE <<>>,
     ThermalComfort |->
        IF tstat \in {"comfort", "comfort_single"}
        THEN << [Name |-> <<"T", "C">>,
                 Zone_or_ZoneList_Name |-> nZ1,
                 Thermal_Comfort_Control_Type_Schedule_Name |-> <<"C", "T">>,
                 Thermal_Comfort_Control_1_Object_Type |->
                     IF tstat = "comfort" THEN FangerType
                     ELSE "ThermostatSetpoint:ThermalComfort:Fanger:SingleHeating",
                 Thermal_Comfort_Control_1_Name |-> <<"F">>] >>
        ELSE <<>>,
     Fanger |->
        IF tstat = "comfort"
        THEN << [Name |-> <<"F">>,
                 Fanger_Thermal_Comfort_Heating_Schedule_Name |-> <<"H">>,
                 Fanger_Thermal_Comfort_Cooling_Schedule_Name |-> <<"C">>] >>
        ELSE <<>>,
     Sensor |-> <<>>,
     Actuator |-> <<>>,
     GlobalVariable |-> <<>>,
     Program |->
        IF tstat = "comfort"
        THEN << [Name |-> <<"U">>, Lines |-> [kind |-> "user"]] >>
        ELSE <<>>,
     ProgramCallingManager |->
        IF tstat = "comfort"
        THEN << [Name |-> <<"M">>,
                 EnergyPlus_Model_Calling_Point |-> "EndOfZoneTimestepBeforeZoneReporting",
                 Program_Name_1 |-> <<"U">>] >>
        ELSE <<>>,
     EmsOutputVariable |-> <<>>,
     OutputVariable |-> <<>>,
     OutputControlFiles |->
        IF tstat = "comfort"
        THEN << [Output_CSV |-> "No", Output_MTR |-> "No", Output_ESO |-> "Yes"] >>
        ELSE <<>>]

\* the classes only the schema with spaces has
SpaceObjects(spaces, space_lists) ==
    [k \in {"SPACE", "SPACELIST"} |-> IF k = "SPACE" THEN spaces ELSE space_lists]

\* the input models
Buildings ==
    { CommonObjects(people, zl, t)
        : people \in PeopleChoices("zone"), zl \in {<<>>}, t \in ThermostatChoices }
    \cup
    { CommonObjects(people, zl, t)
        : people \in PeopleChoices("zonelist"), zl \in ZoneListChoices, t \in ThermostatChoices }
    \cup
    UNION { { CommonObjects(people, zl, t) @@ SpaceObjects(sp, sl)
                : people \in PeopleChoices("space"), zl \in ZoneListChoices, t \in ThermostatChoices }
            : sp \in SpaceChoices, sl \in SpaceListChoices }

\* the same, and a thermal-comfort thermostat whose control is no dual
\* setpoint
InfraThermostatChoices == ThermostatChoices \cup {"comfort_single"}

\* the input models of _ensure_infrastructure, which reads the schedules and
\* the thermostats only
InfraBuildings == { CommonObjects(<<>>, <<>>, t) : t \in InfraThermostatChoices }

\* the zone names unique_zones is drawn from: Z1 in two letter cases, Z-2
InfraZoneNames == {nZ1, nZ1lower, nZ2}

\* a third zone, whose name differs from Z-2 in the one character the
\* sanitizer replaces
nZ_2 == <<"Z", "_", "2">>

\* the input models of the behaviours in which the caller adds occupant
\* groups between two augmentations: they have the zones Z1, Z-2 and Z_2
\* and the ZoneList L
ReapplyBuildings ==
    { [CommonObjects(people, << [Name |-> nL, Zones |-> <<nZ1, nZ2, <<>>, nZX>>] >>, "none")
          EXCEPT !.ZONE = Zones \o <<[Name |-> nZ_2]>>]
        : people \in {<<>>, <<PeopleObject("zonelist", 1, nZ1)>>,
                        <<PeopleObject("zonelist", 1, nLref)>>} }

\* the containers the caller assigns an added occupant group to
AddedContainerRefs == {nZ2, nZ_2}

Scalar(v) == [scalar |-> v]
Dict(pairs) == [dict |-> pairs]

\* the defaults of apply_apmv_setpoints' parameters
DefaultArgs ==
    [outputs_freq |-> << <<"h","o","u","r","l","y">> >>,
     other_PMV_related_outputs |-> TRUE,
     adap_coeff_cooling |-> Scalar(293),
     adap_coeff_heating |-> Scalar(-293),
     pmv_cooling_sp |-> Scalar(-500),
     pmv_heating_sp |-> Scalar(500),
     tolerance_cooling_sp_cooling_season |-> Scalar(-100),
     tolerance_cooling_sp_heating_season |-> Scalar(-100),
     tolerance_heating_sp_cooling_season |-> Scalar(100),
     tolerance_heating_sp_heating_season |-> Scalar(100),
     cooling_season_start |-> [day |-> 120],
     cooling_season_end |-> [day |-> 210],
     dflt |-> [adap_coeff_cooling |-> 400,
               adap_coeff_heating |-> -400,
               pmv_cooling_sp |-> 500,
               pmv_heating_sp |-> -500,
               tolerance_cooling_sp_cooling_season |-> -100,
               tolerance_cooling_sp_heating_season |-> -100,
               tolerance_heating_sp_cooling_season |-> 100,
               tolerance_heating_sp_heating_season |-> 100]]

\* what a caller passes for one tunable field: a scalar, or a dict that
\* names one target of the model and one name that is no target
FieldValues ==
    { Scalar(7),
      Dict(<< <<nZ1, 11>>, <<nZX \o <<"?">>, 13>> >>) }

\* the argument records of apply_apmv_setpoints: the defaults; other
\* coefficients, a second frequency and a season given as "01/12" to day 90;
\* and a season start "31/02"
ApplyArgs ==
    { DefaultArgs,
      [DefaultArgs EXCEPT !.adap_coeff_cooling = Scalar(7),
                          !.pmv_heating_sp = Dict(<< <<nZ1, 11>>, <<nZX \o <<"?">>, 13>> >>),
                          !.outputs_freq = << <<"h","o","u","r","l","y">>, <<"d","a","i","l","y">> >>,
                          !.other_PMV_related_outputs = FALSE,
                          !.cooling_season_start = [ddmm |-> <<1, 12>>],
                          !.cooling_season_end = [day |-> 90]],
      [DefaultArgs EXCEPT !.cooling_season_start = [ddmm |-> <<31, 2>>]] }

\* the argument records of generate_df_from_args: the defaults, or the
\* defaults with one tunable field replaced
TableArgs ==
    {DefaultArgs} \cup
    { [DefaultArgs EXCEPT ![TunableFields[n]] = v]
        : n \in 1..Len(TunableFields), v \in FieldValues }

\* the arguments of the augmentations whose programs are run: a season
\* that wraps over the end of the year, one that does not and one whose
\* start is its end; as cooling coefficient, cooling setpoint and heating
\* setpoint those of the worked examples, a heating setpoint below the
\* cooling one, the setpoints of the signature, and a coefficient that
\* makes 1 + adap_coeff * pmv zero
ErlSeasons == { <<330, 90>>, <<90, 330>>, <<90, 90>> }
ErlSetpoints ==
    { <<0, 500, -500>>, <<293, 500, -500>>, <<-293, 500, 500>>, <<293, -500, 500>>,
      <<-2000, 500, 500>> }
ErlArgs ==
    { [DefaultArgs EXCEPT !.cooling_season_start = [day |-> s[1]],
                          !.cooling_season_end = [day |-> s[2]],
                          !.adap_coeff_cooling = Scalar(c[1]),
                          !.pmv_cooling_sp = Scalar(c[2]),
                          !.pmv_heating_sp = Scalar(c[3])]
        : s \in ErlSeasons, c \in ErlSetpoints }

\* the model that is augmented and then simulated: one occupant group in Z1
ErlInputBuilding == CommonObjects(<<PeopleObject("zonelist", 1, nZ1)>>, <<>>, "none")

\* what EnergyPlus hands the programs at a timestep
Days == {10, 90, 200, 330, 340}
OccupantCounts == {Whole(0), Whole(2)}
PmvValues ==
    {Thousandths(-1000), Thousandths(-500), Thousandths(0), Thousandths(500), Thousandths(1000)}
ZoneTimeStep == Rat(1, 4)

\* the season boundaries of the calls whose dates are looked at: day
\* numbers, dates, and strings that are no date of the calendar
DatedStarts == { [day |-> 120], [ddmm |-> <<1, 12>>], [ddmm |-> <<31, 2>>], [ddmm |-> <<0, 1>>] }
DatedEnds == { [day |-> 210], [ddmm |-> <<1, 3>>], [ddmm |-> <<30, 2>>], [ddmm |-> <<15, 13>>] }
DatedArgs ==
    { [DefaultArgs EXCEPT !.cooling_season_start = s, !.cooling_season_end = e]
        : s \in DatedStarts, e \in DatedEnds }

\* the models of those calls: no or one occupant group in Z1, with or
\* without the ZoneList, and each thermostat of Z1
DatedBuildings ==
    { CommonObjects(people, zl, t)
        : people \in {<<>>, <<PeopleObject("zonelist", 1, nZ1)>>},
          zl \in ZoneListChoices, t \in InfraThermostatChoices }

-----------------------------------------------------------------------------
(* Operations *)

Column(targets, f) == [i \in 1..Len(targets) |-> targets[i][f]]

Init ==
    /\ building \in Buildings
    /\ ret = <<>>
    /\ warns = <<>>
    /\ call = [op |-> "init"]
    /\ status = "ok"
    /\ calls = 0
    /\ prevApply = <<>>
    /\ before = <<>>
    /\ erl = <<>>

\* get_available_target_names / _resolve_targets on the current model
Resolve ==
    /\ call.op = "init"
    /\ ret' = ResolveTargets(building)
    /\ warns' = ResolveWarnings(building)
    /\ call' = [op |-> "resolve"]
    /\ status' = "ok"
    /\ UNCHANGED <<building, calls, prevApply, before, erl>>

\* generate_df_from_args on the targets of the current model
GenerateDf ==
    /\ call.op = "init"
    /\ \E a \in TableArgs :
        LET target_data == ResolveTargets(building)
            df == GenerateDfFromArgs(Column(target_data, "df_key"),
                                     Column(target_data, "ems_suffix"), a)
        IN  /\ ret' = df.rows
            /\ warns' = df.warns
            /\ call' = [op |-> "df", a |-> a]
            /\ status' = "ok"
            /\ UNCHANGED <<building, calls, prevApply, before, erl>>

\* the orders list(set(target_zones)) can come in
Orders(set) ==
    {f \in [1..Cardinality(set) -> set] :
        \A i, j \in 1..Cardinality(set) : i # j => f[i] # f[j]}

\* a faulty variant of ApplyInfrastructure: the season boundaries are
\* converted after _ensure_infrastructure has run
ApplyInfrastructureThenDates(b, a, unique_zones) ==
    IF SeasonDay(a.cooling_season_start).raised \/ SeasonDay(a.cooling_season_end).raised
    THEN [b |-> EnsureInfrastructure(b, unique_zones).b, raised |-> TRUE]
    ELSE EnsureInfrastructure(b, unique_zones)

\* apply_apmv_setpoints up to the exception of a season boundary that is no
\* date or of _ensure_infrastructure: the model then, and whether it raised
ApplyInfrastructure(b, a, unique_zones) ==
    IF SeasonDay(a.cooling_season_start).raised
    THEN [b |-> b, raised |-> TRUE]
    ELSE IF SeasonDay(a.cooling_season_end).raised
    THEN [b |-> b, raised |-> TRUE]
    ELSE EnsureInfrastructure(b, unique_zones)

\* apply_apmv_setpoints from the parameter table on
ApplyGeneration(b, a, target_data, unique_zones) ==
    LET ems_target_suffixes == Column(target_data, "ems_suffix")
        ems_sensor_keys == Column(target_data, "sensor_key")
        df_keys == Column(target_data, "df_key")
        df_arguments == GenerateDfFromArgs(df_keys, ems_target_suffixes, a)
        b1 == AddApmvSensors(b, ems_sensor_keys, ems_target_suffixes)
        b2 == AddApmvGlobalVariables(b1, ems_target_suffixes)
        b3 == AddApmvActuators(b2, target_data)
        b4 == AddApmvPrograms(b3, ems_target_suffixes, df_arguments.rows,
                              SeasonDay(a.cooling_season_start).day,
                              SeasonDay(a.cooling_season_end).day)
        b5 == AddApmvProgramCallingManagers(b4)
    IN  [b |-> AddApmvOutputs(b5, a.outputs_freq, a.other_PMV_related_outputs,
                              ems_target_suffixes, unique_zones),
         warns |-> df_arguments.warns]

\* apply_apmv_setpoints: the model it leaves, whether it raised, its warnings
ApplyApmvSetpoints(b, a, target_data, unique_zones) ==
    LET infra == ApplyInfrastructure(b, a, unique_zones)
    IN  IF infra.raised
        THEN [b |-> infra.b, status |-> "raised", warns |-> ResolveWarnings(b)]
        ELSE LET gen == ApplyGeneration(infra.b, a, target_data, unique_zones)
             IN  [b |-> gen.b, status |-> "ok", warns |-> ResolveWarnings(b) \o gen.warns]

\* a call of apply_apmv_setpoints on the current model
Apply ==
    /\ calls < MaxCalls
    /\ \E a \in ApplyArgs :
        \E target_data \in {ResolveTargets(building)} :
            \E unique_zones \in
                    Orders({target_data[i].zone_name : i \in 1..Len(target_data)}) :
                \E r \in {ApplyApmvSetpoints(building, a, target_data, unique_zones)} :
                    /\ building' = r.b
                    /\ status' = r.status
                    /\ warns' = r.warns
                    /\ ret' = <<>>
                    /\ call' = [op |-> "apply", a |-> a]
                    /\ calls' = calls + 1
                    /\ prevApply' = IF call.op = "apply"
                                    THEN <<[a |-> call.a, status |-> status]>>
                                    ELSE <<>>
                    /\ before' = <<building>>
                    /\ UNCHANGED erl

\* a call of _ensure_infrastructure on the current model
EnsureInfra ==
    /\ calls < MaxCalls
    /\ \E zone_set \in SUBSET InfraZoneNames :
        \E unique_zones \in Orders(zone_set) :
            \E r \in {EnsureInfrastructure(building, unique_zones)} :
                /\ building' = r.b
                /\ status' = IF r.raised THEN "raised" ELSE "ok"
                /\ warns' = <<>>
                /\ ret' = <<>>
                /\ call' = [op |-> "infra", zones |-> unique_zones]
                /\ calls' = calls + 1
                /\ prevApply' = IF call.op = "infra"
                                THEN <<[zones |-> call.zones, status |-> status]>>
                                ELSE <<>>
                /\ before' = <<building>>
                /\ UNCHANGED erl

Next == Apply

Spec == Init /\ [][Next]_vars

NextPure == Resolve \/ GenerateDf

\* the input models of the read-only functions: the thermostats, which they
\* never read, are left out
InitPure ==
    /\ Init
    /\ building.Thermostat = <<>>
    /\ building.ThermalComfort = <<>>

SpecPure == InitPure /\ [][NextPure]_vars

\* between two calls the caller adds a People object to the model
AddPeople ==
    /\ Len(building.PEOPLE) < MaxPeople
    /\ Len(building.PEOPLE) < Len(PeopleNames)
    /\ \E c \in AddedContainerRefs :
        building' = [building EXCEPT !.PEOPLE =
                        Append(@, PeopleObject("zonelist", Len(building.PEOPLE) + 1, c))]
    /\ call' = [op |-> "edit"]
    /\ status' = "ok"
    /\ ret' = <<>>
    /\ warns' = <<>>
    /\ prevApply' = <<>>
    /\ before' = <<building>>
    /\ UNCHANGED <<calls, erl>>

NextReapply == Apply \/ AddPeople

InitReapply ==
    /\ building \in ReapplyBuildings
    /\ ret = <<>>
    /\ warns = <<>>
    /\ call = [op |-> "init"]
    /\ status = "ok"
    /\ calls = 0
    /\ prevApply = <<>>
    /\ before = <<>>
    /\ erl = <<>>

SpecReapply == InitReapply /\ [][NextReapply]_vars

NextInfra == EnsureInfra

InitInfra ==
    /\ building \in InfraBuildings
    /\ ret = <<>>
    /\ warns = <<>>
    /\ call = [op |-> "init"]
    /\ status = "ok"
    /\ calls = 0
    /\ prevApply = <<>>
    /\ before = <<>>
    /\ erl = <<>>

SpecInfra == InitInfra /\ [][NextInfra]_vars

\* a call of apply_apmv_setpoints with season boundaries of every kind
ApplyDated ==
    /\ calls < MaxCalls
    /\ \E a \in DatedArgs :
        \E target_data \in {ResolveTargets(building)} :
            \E unique_zones \in
                    Orders({target_data[i].zone_name : i \in 1..Len(target_data)}) :
                \E r \in {ApplyApmvSetpoints(building, a, target_data, unique_zones)} :
                    /\ building' = r.b
                    /\ status' = r.status
                    /\ warns' = r.warns
                    /\ ret' = <<>>
                    /\ call' = [op |-> "apply", a |-> a]
                    /\ calls' = calls + 1
                    /\ prevApply' = IF call.op = "apply"
                                    THEN <<[a |-> call.a, status |-> status]>>
                                    ELSE <<>>
                    /\ before' = <<building>>
                    /\ UNCHANGED erl

NextDated == ApplyDated

InitDated ==
    /\ building \in DatedBuildings
    /\ ret = <<>>
    /\ warns = <<>>
    /\ call = [op |-> "init"]
    /\ status = "ok"
    /\ calls = 0
    /\ prevApply = <<>>
    /\ before = <<>>
    /\ erl = <<>>

SpecDated == InitDated /\ [][NextDated]_vars

\* one zone timestep of the simulation of the current model: EnergyPlus
\* sets DayOfYear, ZoneTimeStep and the sensors, then runs the managers
Timestep ==
    /\ ~erl.fatal
    /\ \E day \in Days :
        \E occupants \in [SensorNames(building, "People Occupant Count") -> OccupantCounts] :
            \E pmv \in [SensorNames(building, "Zone Thermal Comfort Fanger Model PMV")
                            -> PmvValues] :
                \E e \in {RunManagers(building, building.ProgramCallingManager,
                                      WithInputs([erl EXCEPT !.null = FALSE], day,
                                                 ZoneTimeStep, occupants, pmv))} :
                    /\ erl' = e
                    /\ status' = IF e.fatal THEN "fatal" ELSE "ok"
                    /\ call' = [op |-> "timestep"]
                    /\ ret' = <<>>
                    /\ warns' = <<>>
                    /\ UNCHANGED <<building, calls, prevApply, before>>

NextErl == Timestep

\* the simulation starts on a model apply_apmv_setpoints has augmented
InitErl ==
    /\ building \in
          { ApplyApmvSetpoints(ErlInputBuilding, a, ResolveTargets(ErlInputBuilding),
                               <<nZ1>>).b : a \in ErlArgs }
    /\ ret = <<>>
    /\ warns = <<>>
    /\ call = [op |-> "init"]
    /\ status = "ok"
    /\ calls = 0
    /\ prevApply = <<>>
    /\ before = <<>>
    /\ erl \in {[t |-> <<>>, fatal |-> FALSE, strict |-> s, null |-> FALSE] : s \in BOOLEAN}

SpecErl == InitErl /\ [][NextErl]_vars

-----------------------------------------------------------------------------
(* What the specification says, in its own terms *)

\* sanitize(name): spaces, colons and hyphens become underscores
SpecSanitize(name) ==
    [i \in 1..Len(name) |-> IF name[i] \in {" ", ":", "-"} THEN "_" ELSE name[i]]

\* names are compared case-insensitively
Fold(name) == Strip([i \in 1..Len(name) |-> LowerChar(name[i])])
SameName(a, b) == Fold(a) = Fold(b)

\* the objects of a class, none when the schema lacks the class
ClassOf(b, k) == IF k \in DOMAIN b THEN b[k] ELSE <<>>
IsNameOf(b, k, name) == \E i \in 1..Len(ClassOf(b, k)) : SameName(ClassOf(b, k)[i].Name, name)
Named(b, k, name) ==
    ClassOf(b, k)[CHOOSE i \in 1..Len(ClassOf(b, k)) : SameName(ClassOf(b, k)[i].Name, name)]

\* the members of a list object: its fields before the first blank one
Members(fields) ==
    LET blanks == {i \in 1..Len(fields) : fields[i] = <<>>}
        n == IF blanks = {} THEN Len(fields)
             ELSE (CHOOSE i \in blanks : \A j \in blanks : i <= j) - 1
    IN  SubSeq(fields, 1, n)

\* the category a container name falls in: 1 SpaceList, 2 ZoneList, 3 Space,
\* 4 PhysicalZone (the fallback)
Category(b, container) ==
    IF IsNameOf(b, "SPACELIST", container) THEN 1
    ELSE IF IsNameOf(b, "ZONELIST", container) THEN 2
    ELSE IF IsNameOf(b, "SPACE", container) THEN 3
    ELSE 4

\* how many of SpaceList, ZoneList, Space a container name is the name of
CategoriesMatched(b, container) ==
    Cardinality({k \in {"SPACELIST", "ZONELIST", "SPACE"} : IsNameOf(b, k, container)})

SpecTarget(lookup_key, sensor_key, owning_zone) ==
    [df_key |-> lookup_key, ems_suffix |-> SpecSanitize(lookup_key),
     sensor_key |-> sensor_key, zone_name |-> owning_zone]

\* the targets of an occupant group p under each category
SpecSpaceListTargets(b, p, container) ==
    LET defined == SelectSeq(Members(Named(b, "SPACELIST", container).Spaces),
                             LAMBDA m : IsNameOf(b, "SPACE", m))
    IN  [j \in 1..Len(defined) |->
            SpecTarget(defined[j] \o <<" ">> \o p.Name, defined[j] \o <<" ">> \o p.Name,
                       Named(b, "SPACE", defined[j]).Zone_Name)]

SpecZoneListTargets(b, p, container) ==
    LET zs == Members(Named(b, "ZONELIST", container).Zones)
    IN  [j \in 1..Len(zs) |->
            SpecTarget(zs[j] \o <<" ">> \o p.Name, zs[j] \o <<" ">> \o p.Name, zs[j])]

SpecSpaceTargets(b, p, container) ==
    << SpecTarget(container \o <<" ">> \o p.Name, container \o <<" ">> \o p.Name,
                  Named(b, "SPACE", container).Zone_Name) >>

SpecZoneTargets(b, p, container) == << SpecTarget(container, p.Name, container) >>

SpecTargetsOf(b, p, container, category) ==
    CASE category = 1 -> SpecSpaceListTargets(b, p, container)
      [] category = 2 -> SpecZoneListTargets(b, p, container)
      [] category = 3 -> SpecSpaceTargets(b, p, container)
      [] category = 4 -> SpecZoneTargets(b, p, container)

\* the occupant groups of the model and what the resolver did for each
Groups == 1..Len(building.PEOPLE)
ContainerOf(i) == ContainerName(building.PEOPLE[i])
EmittedFor(i) == Iterations(building)[i].targets
Resolved == call.op = "resolve" /\ ret = ResolveTargets(building)

-----------------------------------------------------------------------------
(* Claims *)

\* every container reference of the model resolves: it names a zone, a
\* space, a zone list or a space list of the model
ReferencesResolve(b) ==
    \A i \in 1..Len(b.PEOPLE) :
        \E k \in {"ZONE", "SPACE", "ZONELIST", "SPACELIST"} :
            IsNameOf(b, k, ContainerName(b.PEOPLE[i]))

\* C1 (as claimed): a second invocation of apply_apmv_setpoints with the
\* same arguments, right after a first one that completed, leaves every
\* object list of the model as the first left it: it creates no object and
\* changes no field (stated for models whose container references resolve)
C1_SecondInvocationChangesNothing ==
    (/\ call.op = "apply"
     /\ ReferencesResolve(building)
     /\ status = "ok"
     /\ prevApply = <<[a |-> call.a, status |-> "ok"]>>) =>
        building = before[1]

\* C2 (as claimed): the ems_suffix values of the targets _resolve_targets
\* returns are pairwise distinct (stated for models whose container
\* references resolve)
C2_SuffixesPairwiseDistinct ==
    (call.op = "resolve" /\ ReferencesResolve(building)) =>
        \A i, j \in 1..Len(ret) : i # j => ret[i].ems_suffix # ret[j].ems_suffix

\* C3: for each occupant group the container name is classified in the order
\* SpaceList, ZoneList, Space, PhysicalZone, and the targets emitted for the
\* group are those of the first matching category alone
C3_FirstMatchingCategoryWins ==
    Resolved =>
        \A i \in Groups :
            ContainerOf(i) # <<>> =>
                /\ Iterations(building)[i].case = Category(building, ContainerOf(i))
                /\ EmittedFor(i) = SpecTargetsOf(building, building.PEOPLE[i], ContainerOf(i),
                                                 Category(building, ContainerOf(i)))

\* C3 witness: a container name that names a SpaceList, a ZoneList and a
\* Space at once was resolved, and targets were emitted for it
C3_Witness ==
    /\ Resolved
    /\ \E i \in Groups :
        /\ CategoriesMatched(building, ContainerOf(i)) = 3
        /\ EmittedFor(i) # <<>>

\* C4: a group P whose container is a ZoneList (and no SpaceList) with
\* members Z1..Zk gets exactly k targets, in list order, the j-th with
\* lookup_key "<Zj> <P>" and owning_zone Zj
C4_ZoneListExpansion ==
    Resolved =>
        \A i \in Groups :
            (/\ ContainerOf(i) # <<>>
             /\ IsNameOf(building, "ZONELIST", ContainerOf(i))
             /\ ~IsNameOf(building, "SPACELIST", ContainerOf(i))) =>
                LET zs == Members(Named(building, "ZONELIST", ContainerOf(i)).Zones)
                IN  /\ Len(EmittedFor(i)) = Len(zs)
                    /\ \A j \in 1..Len(zs) :
                        /\ EmittedFor(i)[j].df_key = zs[j] \o <<" ">> \o building.PEOPLE[i].Name
                        /\ EmittedFor(i)[j].zone_name = zs[j]

\* C4 witness: a group assigned to a ZoneList of two members was resolved
\* into two targets
C4_Witness ==
    /\ Resolved
    /\ \E i \in Groups :
        /\ IsNameOf(building, "ZONELIST", ContainerOf(i))
        /\ ~IsNameOf(building, "SPACELIST", ContainerOf(i))
        /\ Len(EmittedFor(i)) = 2
        /\ EmittedFor(i)[1].zone_name = nZ1
        /\ EmittedFor(i)[2].zone_name = nZ2

\* C5: a group Q whose container is a SpaceList gets one target per member
\* Space S that has a Space definition, with lookup_key "<S> <Q>" and
\* owning_zone the zone that owns S
C5_SpaceListChaining ==
    Resolved =>
        \A i \in Groups :
            (ContainerOf(i) # <<>> /\ IsNameOf(building, "SPACELIST", ContainerOf(i))) =>
                LET defined == SelectSeq(
                        Members(Named(building, "SPACELIST", ContainerOf(i)).Spaces),
                        LAMBDA m : IsNameOf(building, "SPACE", m))
                IN  /\ Len(EmittedFor(i)) = Len(defined)
                    /\ \A j \in 1..Len(defined) :
                        /\ EmittedFor(i)[j].df_key =
                               defined[j] \o <<" ">> \o building.PEOPLE[i].Name
                        /\ EmittedFor(i)[j].zone_name =
                               Named(building, "SPACE", defined[j]).Zone_Name

\* C5 witness: a group assigned to a SpaceList was resolved and a target of
\* it is owned by the zone its member space names
C5_Witness ==
    /\ Resolved
    /\ \E i \in Groups :
        /\ IsNameOf(building, "SPACELIST", ContainerOf(i))
        /\ \E j \in 1..Len(EmittedFor(i)) :
            /\ EmittedFor(i)[j].df_key = nS1ref \o <<" ">> \o building.PEOPLE[i].Name
            /\ EmittedFor(i)[j].zone_name = nZ1lower

C7_OwningZoneIsAZoneOfTheModel ==
    call.op = "resolve" =>
        \/ status = "raised"
        \/ \A n \in 1..Len(ret) : IsNameOf(building, "ZONE", ret[n].zone_name)

\* C8: every target has ems_suffix = sanitize(lookup_key); sensor_key is the
\* lookup_key in the SpaceList, ZoneList and Space cases and the group's own
\* name in the direct-zone case
C8_SuffixAndSensorKey ==
    Resolved =>
        \A i \in Groups :
            \A j \in 1..Len(EmittedFor(i)) :
                LET t == EmittedFor(i)[j]
                IN  /\ t.ems_suffix = SpecSanitize(t.df_key)
                    /\ Category(building, ContainerOf(i)) \in {1, 2, 3} =>
                           t.sensor_key = t.df_key
                    /\ Category(building, ContainerOf(i)) = 4 =>
                           t.sensor_key = building.PEOPLE[i].Name

\* C8 witness: the resolver returned a list-expanded target whose key holds
\* a blank, a hyphen and a colon, and a direct-zone target
C8_Witness ==
    /\ Resolved
    /\ \E n, m \in 1..Len(ret) :
        /\ ret[n].df_key = nZ2 \o <<" ">> \o PeopleNames[2]
        /\ ret[n].ems_suffix = <<"Z", "_", "2", "_", "Q", "_", "a">>
        /\ ret[m].df_key = nZ1
        /\ ret[m].sensor_key = PeopleNames[1]

\* C9 (as claimed): the table has one row per resolved target, and the n-th
\* row carries the ems_suffix of the n-th target (stated for models whose
\* container references resolve)
C9_OneRowPerTarget ==
    (call.op = "df" /\ ReferencesResolve(building)) =>
        LET targets == ResolveTargets(building)
        IN  /\ Len(ret) = Len(targets)
            /\ \A n \in 1..Len(ret) :
                /\ n <= Len(targets)
                /\ ret[n].key = targets[n].df_key
                /\ ret[n].underscore_zonename = targets[n].ems_suffix

\* C10: a tunable field passed as a scalar has exactly that value on every
\* row of the table
C10_ScalarOnEveryRow ==
    call.op = "df" =>
        \A n \in 1..Len(TunableFields) :
            LET f == TunableFields[n]
            IN  "scalar" \in DOMAIN call.a[f] =>
                    \A r \in 1..Len(ret) : ret[r].val[f] = call.a[f].scalar

\* C10 witness: a table of three rows was built with adap_coeff_cooling
\* passed as 0.293, which differs from the field's default
C10_Witness ==
    /\ call.op = "df"
    /\ Len(ret) = 3
    /\ call.a.adap_coeff_cooling = [scalar |-> 293]
    /\ call.a.dflt.adap_coeff_cooling # 293
    /\ \A r \in 1..3 : ret[r].val.adap_coeff_cooling = 293
\* the keys of a mapping, and the value a mapping gives a key (the last one
\* written for it)
MappingKeys(arg_val) == {arg_val.dict[i][1] : i \in 1..Len(arg_val.dict)}
MappedValue(arg_val, k) ==
    arg_val.dict[CHOOSE i \in 1..Len(arg_val.dict) :
                    /\ arg_val.dict[i][1] = k
                    /\ \A j \in 1..Len(arg_val.dict) : arg_val.dict[j][1] = k => j <= i][2]
LookupKeys == {ResolveTargets(building)[n].df_key : n \in 1..Len(ResolveTargets(building))}

\* C11 (as claimed): when a tunable field is passed as a mapping, a target
\* whose lookup_key the mapping lacks has the field's default on its row and
\* a warning about the substitution is emitted for the field; a target the
\* mapping has keeps the mapped value (stated for models whose container
\* references resolve)
C11_DefaultSubstitutedWithWarning ==
    (call.op = "df" /\ ReferencesResolve(building)) =>
        \A n \in 1..Len(TunableFields) :
            LET f == TunableFields[n]
            IN  IsDict(call.a[f]) =>
                    \A r \in 1..Len(ret) :
                        IF ret[r].key \in MappingKeys(call.a[f])
                        THEN ret[r].val[f] = MappedValue(call.a[f], ret[r].key)
                        ELSE /\ ret[r].val[f] = call.a.dflt[f]
                             /\ \E w \in 1..Len(warns) :
                                    /\ warns[w].arg = f
                                    /\ warns[w].kind # "keys_dropped"

\* C12: when a tunable field is passed as a mapping, the keys that are no
\* lookup_key of a resolved target are dropped with a warning that names
\* them: no row of the table has such a key, and every row has the value the
\* mapping gives its key, or the default when the mapping lacks it
C12_UnknownKeysDroppedWithWarning ==
    call.op = "df" =>
        \A n \in 1..Len(TunableFields) :
            LET f == TunableFields[n]
                unknown == IF IsDict(call.a[f]) THEN MappingKeys(call.a[f]) \ LookupKeys
                           ELSE {}
            IN  unknown # {} =>
                    /\ \E w \in 1..Len(warns) :
                            /\ warns[w].kind = "keys_dropped"
                            /\ warns[w].arg = f
                            /\ {warns[w].keys[i] : i \in 1..Len(warns[w].keys)} = unknown
                    /\ \A r \in 1..Len(ret) :
                            /\ ret[r].key \notin unknown
                            /\ ret[r].val[f] =
                                    IF ret[r].key \in MappingKeys(call.a[f])
                                    THEN MappedValue(call.a[f], ret[r].key)
                                    ELSE call.a.dflt[f]

\* a table of two rows built from a mapping that names one target and one
\* name that is no target: the warning is there, one row has the mapped
\* value and the other the default
C12_Witness ==
    /\ call.op = "df"
    /\ IsDict(call.a.pmv_heating_sp)
    /\ Len(ret) = 2
    /\ \E w \in 1..Len(warns) :
            warns[w] = [kind |-> "keys_dropped", arg |-> "pmv_heating_sp",
                        keys |-> << nZX \o <<"?">> >>]
    /\ \E r, q \in 1..2 :
            /\ ret[r].key = nZ1 /\ ret[r].val.pmv_heating_sp = 11
            /\ ret[q].key # nZ1 /\ ret[q].val.pmv_heating_sp = call.a.dflt.pmv_heating_sp
\* the zones of the last _ensure_infrastructure call, as a set
ZonesOf(zones) == {zones[i] : i \in 1..Len(zones)}
InfraCalled == call.op = "infra"
\* the objects of a class the last call appended
CreatedIn(k) == SubSeq(building[k], Len(before[1][k]) + 1, Len(building[k]))
\* the objects of a class that front a zone, names compared without case
FrontingZone(objs, zone) ==
    {i \in 1..Len(objs) : StrUpper(objs[i].Zone_or_ZoneList_Name) = StrUpper(zone)}

\* C16 (as claimed): a second call of _ensure_infrastructure in a row with
\* the same set of zones creates no schedule, no thermal-comfort thermostat
\* and no Fanger dual-setpoint object
C16_SecondCallCreatesNothing ==
    (/\ InfraCalled
     /\ prevApply # <<>>
     /\ ZonesOf(prevApply[1].zones) = ZonesOf(call.zones)) =>
        \A k \in {"ScheduleCompact", "ThermalComfort", "Fanger"} :
            Len(building[k]) = Len(before[1][k])

\* C16, for calls that return: when the call before returned normally, a
\* second call with the same set of zones returns normally and leaves every
\* object list as it found it
C16_SecondCallAfterReturnChangesNothing ==
    (/\ InfraCalled
     /\ prevApply # <<>>
     /\ prevApply[1].status = "ok"
     /\ ZonesOf(prevApply[1].zones) = ZonesOf(call.zones)) =>
        status = "ok" /\ building = before[1]

\* C19 (as claimed): for every zone of the call and each of PMV_H_SP and
\* PMV_C_SP, no schedule is created when one of that name exists, and
\* otherwise exactly one is created, fixed at -0.5 (heating) or +0.5 (cooling)
C19_SetpointSchedules ==
    InfraCalled =>
        \A z \in ZonesOf(call.zones) :
            \A i \in {PMV_H_SP, PMV_C_SP} :
                LET name == PmvScheduleName(i, z)
                    made == SelectSeq(CreatedIn("ScheduleCompact"),
                                      LAMBDA o : o.Name = name)
                IN  IF name \in NamesOf(before[1].ScheduleCompact)
                    THEN made = <<>>
                    ELSE /\ Len(made) = 1
                         /\ UntilValue(made[1].Field_3) = IF i = PMV_H_SP THEN -500 ELSE 500

\* C20: a target zone that had a temperature thermostat and no
\* thermal-comfort thermostat has, after the call, no temperature thermostat
\* and exactly one thermal-comfort thermostat, created by the call together
\* with one Fanger dual-setpoint object: the one the thermostat names, its
\* schedule fields naming the two PMV schedules of the thermostat's zone,
\* which exist
C20_TemperatureThermostatReplaced ==
    InfraCalled =>
        \A z \in ZonesOf(call.zones) :
            (/\ FrontingZone(before[1].Thermostat, z) # {}
             /\ FrontingZone(before[1].ThermalComfort, z) = {}) =>
                /\ FrontingZone(building.Thermostat, z) = {}
                /\ Cardinality(FrontingZone(building.ThermalComfort, z)) = 1
                /\ LET made == SelectSeq(CreatedIn("ThermalComfort"),
                                         LAMBDA o : FrontingZone(<<o>>, z) = {1})
                   IN  /\ Len(made) = 1
                       /\ made[1].Thermal_Comfort_Control_1_Object_Type = FangerType
                       /\ LET t == made[1]
                              fs == SelectSeq(CreatedIn("Fanger"),
                                        LAMBDA o : o.Name = t.Thermal_Comfort_Control_1_Name)
                          IN  /\ Len(fs) = 1
                              /\ fs[1].Fanger_Thermal_Comfort_Heating_Schedule_Name =
                                     PmvScheduleName(PMV_H_SP, t.Zone_or_ZoneList_Name)
                              /\ fs[1].Fanger_Thermal_Comfort_Cooling_Schedule_Name =
                                     PmvScheduleName(PMV_C_SP, t.Zone_or_ZoneList_Name)
                              /\ {fs[1].Fanger_Thermal_Comfort_Heating_Schedule_Name,
                                  fs[1].Fanger_Thermal_Comfort_Cooling_Schedule_Name}
                                     \subseteq NamesOf(building.ScheduleCompact)

\* a call for Z1 and Z-2 that returned, on a model whose zone Z1 had the
\* temperature thermostat: it is gone and Z1 has its thermal-comfort one
C20_Witness ==
    /\ InfraCalled
    /\ status = "ok"
    /\ ZonesOf(call.zones) = {nZ1, nZ2}
    /\ before[1].Thermostat # <<>>
    /\ building.Thermostat = <<>>
    /\ Cardinality(FrontingZone(building.ThermalComfort, nZ1)) = 1
ApplyReturned == call.op = "apply" /\ status = "ok"
\* the managers of the model that call a program of this name
ManagersOf(name) ==
    {i \in 1..Len(building.ProgramCallingManager) :
        building.ProgramCallingManager[i].Program_Name_1 = name}
SuffixesDistinct(b) ==
    \A i, j \in 1..Len(ResolveTargets(b)) :
        i # j => ResolveTargets(b)[i].ems_suffix # ResolveTargets(b)[j].ems_suffix

\* C18 (as claimed): after apply_apmv_setpoints returns, every program the
\* call created has exactly one manager, of the program's name, calling it
\* at BeginTimestepBeforePredictor; no program of the model has two managers;
\* and every manager the call created calls a program the call created
\* (stated for models whose container references resolve and whose targets
\* have pairwise distinct suffixes)
C18_OneManagerPerGeneratedProgram ==
    (ApplyReturned /\ ReferencesResolve(building) /\ SuffixesDistinct(building)) =>
        /\ \A n \in 1..Len(CreatedIn("Program")) :
                LET name == CreatedIn("Program")[n].Name
                IN  /\ Cardinality(ManagersOf(name)) = 1
                    /\ \A i \in ManagersOf(name) :
                           /\ building.ProgramCallingManager[i].Name = name
                           /\ building.ProgramCallingManager[i].EnergyPlus_Model_Calling_Point
                                  = "BeginTimestepBeforePredictor"
        /\ \A n \in 1..Len(building.Program) :
                Cardinality(ManagersOf(building.Program[n].Name)) <= 1
        /\ \A n \in 1..Len(CreatedIn("ProgramCallingManager")) :
                CreatedIn("ProgramCallingManager")[n].Program_Name_1
                    \in NamesOf(CreatedIn("Program"))
\* the field that holds the name of an object of a generated class
NameField(k) == IF k = "GlobalVariable" THEN "Erl_Variable_1_Name" ELSE "Name"
NamesIn(objs, k) == {objs[i][NameField(k)] : i \in 1..Len(objs)}

\* C17: a call of apply_apmv_setpoints leaves every EMS sensor, actuator,
\* global variable and program the model already had in its place with all
\* its fields, whatever the arguments of the call, and every object of these
\* classes it creates has a name the model did not have
C17_ExistingKeptNewAdded ==
    call.op = "apply" =>
        \A k \in {"Sensor", "Actuator", "GlobalVariable", "Program"} :
            /\ Len(building[k]) >= Len(before[1][k])
            /\ SubSeq(building[k], 1, Len(before[1][k])) = before[1][k]
            /\ NamesIn(CreatedIn(k), k) \cap NamesIn(before[1][k], k) = {}

\* a second augmentation, after the caller added an occupant group, with a
\* cooling coefficient other than the one the first augmentation wrote into
\* set_zone_input_data_Z1: that program is kept as it was and the programs
\* and sensors of the new target are created
C17_Witness ==
    /\ ApplyReturned
    /\ calls = 2
    /\ call.a.adap_coeff_cooling = Scalar(7)
    /\ \E n \in 1..Len(before[1].Program) :
        /\ before[1].Program[n].Name = Lit("set_zone_input_data_") \o nZ1
        /\ before[1].Program[n].Lines.set.adap_coeff_cooling = 293
        /\ building.Program[n] = before[1].Program[n]
    /\ CreatedIn("Program") # <<>>
    /\ CreatedIn("Sensor") # <<>>

\* the state after a timestep of the simulation
Simulated == call.op = "timestep"
\* the programs of the model of this kind
ProgramsOfKind(kind) ==
    {i \in 1..Len(building.Program) : building.Program[i].Lines.kind = kind}
\* the season boundaries the augmentation wrote into set_cooling_season_input_data
SeasonStart ==
    building.Program[CHOOSE i \in ProgramsOfKind("set_cooling_season_input_data") : TRUE]
        .Lines.CoolSeasonStart
SeasonEnd ==
    building.Program[CHOOSE i \in ProgramsOfKind("set_cooling_season_input_data") : TRUE]
        .Lines.CoolSeasonEnd
Assigned(name) == name \in DOMAIN erl.t
IsCoolingSeason == Assigned(Lit("CoolingSeason")) /\ erl.t[Lit("CoolingSeason")] = Whole(1)
Today == erl.t[Lit("DayOfYear")].n

\* C13: after a timestep on day d, CoolingSeason is 1 exactly when
\* start <= d < end if start < end, and exactly when d >= start or d < end
\* if start > end; for start 330 and end 90, days 10 and 340 are cooling
\* season and day 200 is not
C13_SeasonClassification ==
    Simulated =>
        /\ SeasonStart < SeasonEnd =>
              (IsCoolingSeason <=> (SeasonStart <= Today /\ Today < SeasonEnd))
        /\ SeasonStart > SeasonEnd =>
              (IsCoolingSeason <=> (Today >= SeasonStart \/ Today < SeasonEnd))
        /\ (SeasonStart = 330 /\ SeasonEnd = 90) =>
              /\ Today \in {10, 340} => IsCoolingSeason
              /\ Today = 200 => ~IsCoolingSeason

\* day 340 of a season from day 330 to day 90 is classified as cooling season
C13_Witness ==
    /\ Simulated
    /\ SeasonStart = 330
    /\ SeasonEnd = 90
    /\ Today = 340
    /\ IsCoolingSeason

ToThreeDecimals(x) == (2000 * x.n + x.d) \div (2 * x.d)

\* the aPMV transform with the three worked examples: for a cooling setpoint
\* of 0.5 the coefficients 0, 0.293 and -0.293 give, in thousandths, zero,
\* plus and minus
TransformExamples(zero, plus, minus) ==
    (Simulated /\ ~erl.fatal) =>
        \A i \in ProgramsOfKind("apply_aPMV") :
            LET suffix == building.Program[i].Lines.suffix
                sp == erl.t[ErlName("pmv_cooling_sp", suffix)]
                adap_coeff == erl.t[ErlName("adap_coeff", suffix)]
                result == erl.t[ErlName("aPMV_C_SP_noTol", suffix)]
            IN  /\ MulR(result, AddR(Whole(1), MulR(adap_coeff, sp))) = sp
                /\ sp = Thousandths(500) =>
                    /\ adap_coeff = Thousandths(0) => ToThreeDecimals(result) = zero
                    /\ adap_coeff = Thousandths(293) => ToThreeDecimals(result) = plus
                    /\ adap_coeff = Thousandths(-293) => ToThreeDecimals(result) = minus

\* C15 (as claimed): aPMV_C_SP_noTol = pmv_cooling_sp / (1 + adap_coeff *
\* pmv_cooling_sp), which for a cooling setpoint of 0.5 and coefficients 0,
\* 0.293 and -0.293 is 0.5, 0.435 and 0.581
C15_TransformAsClaimed == TransformExamples(500, 435, 581)

\* C15 (amended): aPMV_C_SP_noTol = pmv_cooling_sp / (1 + adap_coeff *
\* pmv_cooling_sp), which for a cooling setpoint of 0.5 and coefficients 0,
\* 0.293 and -0.293 is 0.5, 0.436 and 0.586
C15_TransformValues == TransformExamples(500, 436, 586)

\* a timestep of the cooling season with cooling setpoint 0.5 and cooling
\* coefficient 0.293: aPMV_C_SP_noTol is 1000/2293
C15_Witness ==
    /\ Simulated
    /\ ~erl.fatal
    /\ IsCoolingSeason
    /\ \E i \in ProgramsOfKind("apply_aPMV") :
        LET suffix == building.Program[i].Lines.suffix
        IN  /\ erl.t[ErlName("pmv_cooling_sp", suffix)] = Thousandths(500)
            /\ erl.t[ErlName("adap_coeff", suffix)] = Thousandths(293)
            /\ erl.t[ErlName("aPMV_C_SP_noTol", suffix)] = Rat(1000, 2293)

\* C21 (as claimed): for a zone of the call that had a thermal-comfort
\* thermostat linked to a Fanger dual-setpoint object, after the call the
\* object this thermostat named has its two schedule fields naming the PMV
\* schedules of the zone, and the call created no Fanger dual-setpoint
\* object for the zone
C21_LinkedSetpointUpdatedInPlace ==
    (InfraCalled /\ status = "ok") =>
        \A z \in ZonesOf(call.zones) :
            \A n \in {m \in FrontingZone(before[1].ThermalComfort, z) :
                       before[1].ThermalComfort[m].Thermal_Comfort_Control_1_Object_Type
                           = FangerType} :
                LET linked == before[1].ThermalComfort[n].Thermal_Comfort_Control_1_Name
                IN  /\ \E i \in 1..Len(building.Fanger) :
                        /\ building.Fanger[i].Name = linked
                        /\ building.Fanger[i].Fanger_Thermal_Comfort_Heating_Schedule_Name
                               = PmvScheduleName(PMV_H_SP, z)
                        /\ building.Fanger[i].Fanger_Thermal_Comfort_Cooling_Schedule_Name
                               = PmvScheduleName(PMV_C_SP, z)
                    /\ \A i \in 1..Len(CreatedIn("Fanger")) :
                        CreatedIn("Fanger")[i].Fanger_Thermal_Comfort_Heating_Schedule_Name
                            # PmvScheduleName(PMV_H_SP, z)

\* C28 (as claimed): after _ensure_infrastructure returns, no zone of the
\* call, names compared without case, is fronted by two thermal-comfort
\* thermostats
C28_OneComfortThermostatPerZone ==
    (InfraCalled /\ status = "ok") =>
        \A z \in ZonesOf(call.zones) :
            Cardinality(FrontingZone(building.ThermalComfort, z)) <= 1

\* the warnings of the resolver for the i-th occupant group
WarnedFor(i) == Iterations(building)[i].warns

\* C25: for a group Q whose container is a SpaceList the resolver returns
\* normally; every member S that has a Space definition yields the target
\* "<S> <Q>", every member that has none yields no target and one warning
\* that names it and the list, and there is no other warning for Q
C25_MissingSpaceSkippedWithWarning ==
    Resolved =>
        /\ status = "ok"
        /\ warns = ResolveWarnings(building)
        /\ \A i \in Groups :
            (ContainerOf(i) # <<>> /\ IsNameOf(building, "SPACELIST", ContainerOf(i))) =>
                LET members == Members(Named(building, "SPACELIST", ContainerOf(i)).Spaces)
                    missing == SelectSeq(members, LAMBDA m : ~IsNameOf(building, "SPACE", m))
                    key(m) == m \o <<" ">> \o building.PEOPLE[i].Name
                IN  /\ \A n \in 1..Len(members) :
                        IsNameOf(building, "SPACE", members[n]) <=>
                            \E j \in 1..Len(EmittedFor(i)) :
                                EmittedFor(i)[j].df_key = key(members[n])
                    /\ WarnedFor(i) =
                        [n \in 1..Len(missing) |->
                            [kind |-> "space_not_in_SPACE", space |-> missing[n],
                             list |-> ContainerOf(i)]]

\* a group assigned to the SpaceList L, whose second member S9 has no Space
\* definition: S9 is warned about and the member after it still has its target
C25_Witness ==
    /\ Resolved
    /\ \E i \in Groups :
        /\ IsNameOf(building, "SPACELIST", ContainerOf(i))
        /\ WarnedFor(i) = << [kind |-> "space_not_in_SPACE", space |-> nS9,
                              list |-> ContainerOf(i)] >>
        /\ \E w \in 1..Len(warns) : warns[w].space = nS9
        /\ Len(EmittedFor(i)) = 2
        /\ EmittedFor(i)[2].df_key = nL \o <<" ">> \o building.PEOPLE[i].Name

\* the days of a month of a year that is no leap year
MonthLength(m) == IF m = 2 THEN 28 ELSE IF m \in {4, 6, 9, 11} THEN 30 ELSE 31
\* a season boundary given as a "dd/mm" string that is no day of the calendar
NoCalendarDay(x) ==
    /\ "ddmm" \in DOMAIN x
    /\ ~(x.ddmm[2] \in 1..12 /\ x.ddmm[1] \in 1..MonthLength(x.ddmm[2]))

\* C29: a call of apply_apmv_setpoints whose cooling_season_start or
\* cooling_season_end is a "dd/mm" string that is no calendar day raises
\* and leaves the model as it found it
C29_BadDateLeavesModelUntouched ==
    (/\ call.op = "apply"
     /\ NoCalendarDay(call.a.cooling_season_start)
            \/ NoCalendarDay(call.a.cooling_season_end)) =>
        /\ status = "raised"
        /\ building = before[1]

\* a call with the valid start "01/12" and the end "30/02" on a model with
\* an occupant group in Z1 and a temperature thermostat on Z1: it raised,
\* the thermostat is still there and no schedule was created
C29_Witness ==
    /\ call.op = "apply"
    /\ call.a.cooling_season_start = [ddmm |-> <<1, 12>>]
    /\ call.a.cooling_season_end = [ddmm |-> <<30, 2>>]
    /\ status = "raised"
    /\ building.PEOPLE # <<>>
    /\ building.Thermostat # <<>>
    /\ building.ScheduleCompact = <<>>

\* no two objects of a list share the name held in this field
UniqueNames(objs, name_field) ==
    \A i, j \in 1..Len(objs) : i # j => objs[i][name_field] # objs[j][name_field]

\* C26 (as claimed), for two occupant groups assigned directly to the same
\* zone: after one call of apply_apmv_setpoints on a model that had no EMS
\* object, no two sensors, no two actuators, no two global variables and no
\* two programs share a name
C26_TwoGroupsInOneZoneUnique ==
    (/\ ApplyReturned
     /\ calls = 1
     /\ Len(building.PEOPLE) = 2
     /\ ContainerOf(1) = nZ1
     /\ ContainerOf(2) = nZ1
     /\ \A k \in {"Sensor", "Actuator", "GlobalVariable", "Program",
                  "ProgramCallingManager"} : before[1][k] = <<>>) =>
        \A k \in {"Sensor", "Actuator", "GlobalVariable", "Program"} :
            UniqueNames(building[k], NameField(k))

\* "PMV_<i>_SP_act_<suffix>" and "PMV_<i>_SP_<zone>" for i "H" or "C"
SpecActuatorName(i, suffix) ==
    <<"P", "M", "V", "_", i, "_", "S", "P", "_", "a", "c", "t", "_">> \o suffix
SpecScheduleName(i, zone) == <<"P", "M", "V", "_", i, "_", "S", "P", "_">> \o zone
\* the actuators of the model of this name
ActuatorsNamed(name) ==
    {n \in 1..Len(building.Actuator) : building.Actuator[n].Name = name}

\* C24 (as claimed): after apply_apmv_setpoints returns, every target has a
\* heating and a cooling actuator of its suffix that actuates the PMV_H_SP_ /
\* PMV_C_SP_ schedule of the target's owning zone, and that schedule is in
\* the model
C24_ActuatorsBoundToZoneSchedule ==
    ApplyReturned =>
        LET targets == ResolveTargets(building)
        IN  \A t \in 1..Len(targets) : \A i \in {"H", "C"} :
                /\ \E n \in ActuatorsNamed(SpecActuatorName(i, targets[t].ems_suffix)) :
                    /\ building.Actuator[n].Actuated_Component_Unique_Name
                           = SpecScheduleName(i, targets[t].zone_name)
                    /\ building.Actuator[n].Actuated_Component_Type = "Schedule:Compact"
                    /\ building.Actuator[n].Actuated_Component_Control_Type
                           = "Schedule Value"
                /\ SpecScheduleName(i, targets[t].zone_name)
                       \in NamesOf(building.ScheduleCompact)

\* what a program reads from a variable in a simulation that did not fail:
\* its value, or 0 where the build lets a never-assigned variable be read
Reading(name) == IF Assigned(name) THEN erl.t[name] ELSE Whole(0)
\* sp / (1 + adap_coeff * sp) + tolerance, from the values of the timestep
ComputedSetpoint(sp, suffix, tolerance) ==
    AddR(DivR(Reading(ErlName(sp, suffix)),
              AddR(Whole(1), MulR(Reading(ErlName("adap_coeff", suffix)),
                                  Reading(ErlName(sp, suffix))))),
         Reading(ErlName(tolerance, suffix)))

\* C22: after a timestep in which apply_aPMV_<suffix> ran to its end, with a
\* positive occupant count the heating actuator is the computed heating
\* setpoint if that is negative and 0 otherwise, and the cooling actuator is
\* the computed cooling setpoint if that is positive and 0 otherwise;
\* occupied or not, heating actuator <= 0 <= cooling actuator
C22_ActuatorsClamped ==
    (Simulated /\ ~erl.fatal) =>
        \A i \in ProgramsOfKind("apply_aPMV") :
            LET lines == building.Program[i].Lines
                h == ComputedSetpoint("pmv_heating_sp", lines.suffix, "tolerance_heating_sp")
                c == ComputedSetpoint("pmv_cooling_sp", lines.suffix, "tolerance_cooling_sp")
            IN  /\ LtR(Whole(0), erl.t[OccupantSensorName(lines.suffix)]) =>
                    /\ erl.t[lines.act_h] = IF LtR(h, Whole(0)) THEN h ELSE Whole(0)
                    /\ erl.t[lines.act_c] = IF LtR(Whole(0), c) THEN c ELSE Whole(0)
                /\ ~LtR(Whole(0), erl.t[lines.act_h])
                /\ ~LtR(erl.t[lines.act_c], Whole(0))

\* an occupied timestep in which a negative heating setpoint and a positive
\* cooling setpoint reach their actuators
C22_Witness ==
    /\ Simulated
    /\ ~erl.fatal
    /\ \E i \in ProgramsOfKind("apply_aPMV") :
        LET lines == building.Program[i].Lines
        IN  /\ LtR(Whole(0), erl.t[OccupantSensorName(lines.suffix)])
            /\ LtR(erl.t[lines.act_h], Whole(0))
            /\ erl.t[lines.act_h] = erl.t[ErlName("aPMV_H_SP", lines.suffix)]
            /\ LtR(Whole(0), erl.t[lines.act_c])
            /\ erl.t[lines.act_c] = erl.t[ErlName("aPMV_C_SP", lines.suffix)]

\* the accumulators of count_aPMV_comfort_hours_<suffix> after a timestep
Bin_(bin, suffix) == erl.t[ErlName(bin, suffix)]
\* the bin the claim gives a timestep: cold below the heating bound, hot
\* above the cooling bound, comfortable at a bound or between them
ClaimedBins(suffix) ==
    LET aPMV == Bin_("aPMV", suffix)
        heating == Bin_("aPMV_H_SP_noTol", suffix)
        cooling == Bin_("aPMV_C_SP_noTol", suffix)
    IN  /\ LtR(aPMV, heating) => Bin_("discomfhour_cold", suffix) = ZoneTimeStep
        /\ LtR(cooling, aPMV) => Bin_("discomfhour_heat", suffix) = ZoneTimeStep
        /\ (aPMV = heating \/ aPMV = cooling) => Bin_("comfhour", suffix) = ZoneTimeStep
\* exactly one bin holds the timestep, and the sums
BinSums(suffix) ==
    /\ \E b \in {"comfhour", "discomfhour_cold", "discomfhour_heat"} :
        /\ Bin_(b, suffix) = ZoneTimeStep
        /\ \A o \in {"comfhour", "discomfhour_cold", "discomfhour_heat"} \ {b} :
            Bin_(o, suffix) = Whole(0)
    /\ AddR(Bin_("comfhour", suffix),
            AddR(Bin_("discomfhour_cold", suffix), Bin_("discomfhour_heat", suffix)))
          = ZoneTimeStep
    /\ Bin_("discomfhour", suffix)
          = AddR(Bin_("discomfhour_cold", suffix), Bin_("discomfhour_heat", suffix))
    /\ Bin_("occupied_hour", suffix)
          = IF LtR(Whole(0), erl.t[OccupantSensorName(suffix)]) THEN ZoneTimeStep
            ELSE Whole(0)

\* C23 (as claimed): after a timestep in which count_aPMV_comfort_hours_<suffix>
\* ran, aPMV below the heating bound is counted cold, aPMV above the cooling
\* bound is counted hot, aPMV equal to a bound is counted comfortable, exactly
\* one of the three bins holds ZoneTimeStep, discomfhour is the sum of the
\* cold and hot bins and occupied_hour is ZoneTimeStep iff the zone is occupied
C23_ComfortBins ==
    (Simulated /\ ~erl.fatal) =>
        \A i \in ProgramsOfKind("count_aPMV_comfort_hours") :
            /\ ClaimedBins(building.Program[i].Lines.suffix)
            /\ BinSums(building.Program[i].Lines.suffix)

\* the sums alone hold in every timestep
C23_SumsHold ==
    (Simulated /\ ~erl.fatal) =>
        \A i \in ProgramsOfKind("count_aPMV_comfort_hours") :
            BinSums(building.Program[i].Lines.suffix)

\* where the heating bound is not above the cooling bound the bins are
\* those of the claim
C23_OrderedBoundsHold ==
    (Simulated /\ ~erl.fatal) =>
        \A i \in ProgramsOfKind("count_aPMV_comfort_hours") :
            LET suffix == building.Program[i].Lines.suffix
            IN  ~LtR(Bin_("aPMV_C_SP_noTol", suffix), Bin_("aPMV_H_SP_noTol", suffix))
                    => ClaimedBins(suffix)

\* the value of CoolingSeason, or that it was never assigned
SeasonFlag == IF Assigned(Lit("CoolingSeason")) THEN <<erl.t[Lit("CoolingSeason")]>> ELSE <<>>

\* C30: in a model whose season start equals the season end, no timestep,
\* whatever its day, changes CoolingSeason: set_cooling_season takes neither
\* branch and the flag stays as it was before the programs ran
C30_EqualBoundsLeaveFlag ==
    [][(call'.op = "timestep" /\ SeasonStart = SeasonEnd) => SeasonFlag' = SeasonFlag]_vars

\* a timestep on the day that is both the start and the end of the season:
\* the programs ran to their end and CoolingSeason was never assigned
C30_Witness ==
    /\ Simulated
    /\ ~erl.fatal
    /\ SeasonStart = SeasonEnd
    /\ Today = SeasonStart
    /\ ~Assigned(Lit("CoolingSeason"))
    /\ \E i \in ProgramsOfKind("apply_aPMV") : Assigned(building.Program[i].Lines.act_h)

\* the positions in the objects of this field value
PositionsOf(objs, field, name) == {i \in 1..Len(objs) : objs[i][field] = name}
\* some object carries the first name, and every object that carries the
\* second one comes after every object that carries the first
Precedes(objs, field, first, second) ==
    /\ PositionsOf(objs, field, first) # {}
    /\ PositionsOf(objs, field, second) # {}
    /\ \A i \in PositionsOf(objs, field, first) :
        \A j \in PositionsOf(objs, field, second) : i < j
\* the order of the claim, among the programs (field Name) or among the
\* calling managers (field Program_Name_1)
ClaimedOrder(objs, field) ==
    /\ Precedes(objs, field, Lit("set_cooling_season_input_data"), Lit("set_cooling_season"))
    /\ \A i \in ProgramsOfKind("apply_aPMV") :
        LET s == building.Program[i].Lines.suffix
        IN  /\ Precedes(objs, field, Lit("set_cooling_season"),
                        Lit("set_zone_input_data_") \o s)
            /\ Precedes(objs, field, Lit("set_zone_input_data_") \o s,
                        Lit("apply_aPMV_") \o s)
            /\ Precedes(objs, field, Lit("apply_aPMV_") \o s, Lit("monitor_aPMV_") \o s)
            /\ Precedes(objs, field, Lit("monitor_aPMV_") \o s,
                        Lit("count_aPMV_comfort_hours_") \o s)
CreationOrder ==
    /\ ProgramsOfKind("apply_aPMV") # {}
    /\ ClaimedOrder(building.Program, "Name")
    /\ ClaimedOrder(building.ProgramCallingManager, "Program_Name_1")

\* C27 (as claimed): on a model that had no EMS program, the programs and
\* their calling managers are in the order set_cooling_season_input_data,
\* set_cooling_season, then for each target set_zone_input_data, apply_aPMV,
\* monitor_aPMV, count_aPMV_comfort_hours; and in a timestep no program
\* reads a variable that was never assigned
C27_OrderedSoAssigned ==
    /\ CreationOrder
    /\ Simulated => ~erl.null

\* the order alone holds
C27_OrderHolds == CreationOrder

\* where the season start is not the season end, no program reads a
\* variable that was never assigned
C27_AssignedUnlessEqualBounds ==
    (Simulated /\ SeasonStart # SeasonEnd) => ~erl.null
=============================================================================
